----------------------------- MODULE Marts_proofs -----------------------------
(***************************************************************************)
(* DAG 03 loses no event that its watermark promises, and no mart goes     *)
(* back, for any events, number of overlapping runs, failures and times:   *)
(* the rows of sessions are left aside there, as in the properties. After  *)
(* a run that nothing disturbed all marts, sessions included, show what is *)
(* stored.                                                                 *)
(***************************************************************************)
EXTENDS Marts, WellFoundedInduction, TLAPS

Sessions == "session_quality_daily"

\* The rows that a statement has computed and not yet written.
Results == UNION { run[s].result : s \in Slots }

\* The row is that of the event.
Shows(r, m, e) == r.mart = m /\ r.day = e.day /\ r.key = Key(m, e)

\* The event is in its row of the mart, and no row that is still to be written
\* drops it.
Firm(e, m) ==
  \E r \in rows :
    /\ Shows(r, m, e) /\ e \in r.from
    /\ \A q \in Results : SameKey(q, r) /\ e \notin q.from => q.at < r.at

\* The same of the row that a run has computed.
Computed(e, m, s) ==
  \E r \in run[s].result :
    /\ Shows(r, m, e) /\ e \in r.from
    /\ \A q \in Results : SameKey(q, r) /\ e \notin q.from => q.at < r.at

-----------------------------------------------------------------------------
(* The invariant. *)

Fields == {"pc", "upper", "first", "last", "next", "result", "attempt", "quiet"}

ClockTyped ==
  /\ now \in Nat
  /\ order \in MartOrders
  /\ age \in [Events -> {Absent} \cup 0 .. SafetyDelay]
  /\ mark \subseteq Stored

RunTyped(s) ==
  /\ DOMAIN run[s] = Fields
  /\ run[s].pc \in {"idle", "read", "query", "insert", "mark"}
  /\ run[s].pc \in {"query", "insert"} => run[s].next \in DOMAIN order
  /\ run[s].pc # "insert" => run[s].result = {}
  /\ run[s].upper \subseteq Stored
  /\ \A r \in run[s].result : r.mart = order[run[s].next]

\* One row for each key.
Unique(S) == \A r, q \in S : SameKey(r, q) => r = q

\* A row is computed from events of its own, and knows those that were stored
\* when it was computed: all of them but the younger ones.
RowOk(r) ==
  /\ r.at \in Nat /\ r.at <= now
  /\ r.mart # Sessions => \A e \in r.from : e \in Stored \cap Valid /\ Shows(r, r.mart, e)

Aged(q) ==
  q.mart # Sessions =>
    \A e \in Stored \cap Valid : Shows(q, q.mart, e) => e \in q.from \/ q.at <= now - age[e]

\* A later row knows what an earlier one does.
Ordered(r, q) == r.mart # Sessions /\ SameKey(r, q) /\ r.at < q.at => r.from \subseteq q.from

RowsInv ==
  /\ Unique(rows) /\ \A s \in Slots : Unique(run[s].result)
  /\ \A r \in rows \cup Results : RowOk(r)
  /\ \A q \in Results : Aged(q)
  /\ \A r, q \in rows \cup Results : Ordered(r, q)

\* What a run has done of what it promises.
Promised(s) == run[s].upper \cap Valid

Filled(s) == { order[i] : i \in 1 .. run[s].next - 1 } \ {Sessions}
Current(s) == { order[run[s].next] } \ {Sessions}

Progress(s) ==
  /\ run[s].pc \in {"query", "insert"} =>
       /\ \A e \in run[s].upper : age[e] = SafetyDelay /\ e.day \in run[s].first .. run[s].last
       /\ \A e \in Promised(s), m \in Filled(s) : Firm(e, m)
  /\ run[s].pc = "insert" => \A e \in Promised(s), m \in Current(s) : Computed(e, m, s)
  /\ run[s].pc = "mark" => \A e \in Promised(s), m \in Marts \ {Sessions} : Firm(e, m)

IInv ==
  /\ ClockTyped
  /\ RowsInv
  /\ \A s \in Slots : RunTyped(s) /\ Progress(s)
  /\ \A e \in mark \cap Valid, m \in Marts \ {Sessions} : Firm(e, m)

-----------------------------------------------------------------------------
(* The statements write and compute. *)

\* What Replace leaves and adds.
LEMMA Replaced ==
  ASSUME NEW R, rows' = Replace(rows, R)
  PROVE  /\ rows' \subseteq rows \cup R
         /\ \A r \in rows : (\A n \in R : SameKey(r, n) => r.at > n.at) => r \in rows'
         /\ \A n \in R : (\A r \in rows : SameKey(r, n) => r.at <= n.at) => n \in rows'
         /\ \A r \in rows, n \in R : n \in rows' /\ SameKey(r, n) => n \in rows \/ r.at <= n.at
  BY DEF Replace

\* Of two rows with one key the later one, or the new one, stays: so there is one.
LEMMA ReplacedUnique ==
  ASSUME NEW R, rows' = Replace(rows, R), Unique(rows), Unique(R),
         \A r \in rows \cup R : r.at \in Nat
  PROVE  Unique(rows)'
<1> SUFFICES ASSUME NEW r \in rows', NEW q \in rows', SameKey(r, q)
             PROVE  r = q
  BY DEF Unique
<1> DEFINE Added(n) == n \in R /\ \A o \in rows : SameKey(o, n) => o.at <= n.at
           Left(o) == o \in rows /\ \A n \in R : SameKey(o, n) => o.at > n.at
<1>1. (Added(r) \/ Left(r)) /\ (Added(q) \/ Left(q)) /\ SameKey(q, r)
  BY DEF Replace, SameKey
<1>2. r.at \in Nat /\ q.at \in Nat
  BY <1>1
<1>3. CASE Added(r) /\ Added(q)
  BY <1>1, <1>3 DEF Unique
<1>4. CASE Left(r) /\ Left(q)
  BY <1>1, <1>4 DEF Unique
<1>5. CASE Added(r) /\ Left(q)
  BY <1>1, <1>2, <1>5
<1>6. CASE Left(r) /\ Added(q)
  BY <1>1, <1>2, <1>6
<1>7. QED
  BY <1>1, <1>3, <1>4, <1>5, <1>6

\* The results that are left to be written are among those there were.
Fewer == Results' \subseteq Results

LEMMA FewerRows ==
  ASSUME RowsInv, Fewer, rows' \subseteq rows \cup Results, Unique(rows)',
         \A s \in Slots : run'[s].result \in {run[s].result, {}},
         UNCHANGED <<now, age, order>>
  PROVE  RowsInv'
<1>1. \A s \in Slots : Unique(run'[s].result)
  BY DEF RowsInv, Unique
<1>2. (rows \cup Results)' \subseteq rows \cup Results
  BY DEF Fewer
<1>3. \A r \in (rows \cup Results)' : RowOk(r)'
  BY <1>2 DEF RowsInv, RowOk, Stored
<1>4. \A q \in Results' : Aged(q)'
  BY DEF RowsInv, Aged, Fewer, Stored
<1>5. \A r, q \in (rows \cup Results)' : Ordered(r, q)
  BY <1>2 DEF RowsInv
<1>6. \A s \in Slots : Unique(run[s].result)'
  BY <1>1 DEF Unique
<1>7. QED
  BY <1>3, <1>4, <1>5, <1>6 DEF RowsInv, Ordered

\* Nothing is written: what is firm stays firm.
LEMMA FirmStays ==
  ASSUME Fewer, rows' = rows, NEW e, NEW m, Firm(e, m)
  PROVE  Firm(e, m)'
  BY DEF Firm, Fewer, Shows

\* A block is written: a firm event is in the row that stays, be it the old or the
\* new one.
LEMMA FirmWritten ==
  ASSUME RowsInv, Fewer, NEW s \in Slots, rows' = Replace(rows, run[s].result),
         NEW e, NEW m, m # Sessions, Firm(e, m)
  PROVE  Firm(e, m)'
<1> DEFINE R == run[s].result
<1>1. PICK r \in rows : /\ Shows(r, m, e) /\ e \in r.from
                        /\ \A q \in Results : SameKey(q, r) /\ e \notin q.from => q.at < r.at
  BY DEF Firm
<1>2. R \subseteq Results
  BY DEF Results
<1>3. /\ Unique(rows) /\ \A q \in rows \cup Results : q.at \in Nat
  BY DEF RowsInv, RowOk
<1>4. CASE \A n \in R : SameKey(r, n) => r.at > n.at
  <2>1. r \in rows'
    BY <1>4, Replaced
  <2>2. QED
    BY <1>1, <2>1 DEF Firm, Fewer, Shows
<1>5. ASSUME NEW n \in R, SameKey(r, n), ~(r.at > n.at) PROVE Firm(e, m)'
  <2>1. SameKey(n, r) /\ r.at <= n.at
    BY <1>2, <1>3, <1>5 DEF SameKey
  <2>2. e \in n.from
    BY <1>1, <1>2, <1>3, <1>5, <2>1
  <2>3. Shows(n, m, e)
    BY <1>1, <2>1 DEF Shows, SameKey
  <2>4. \A o \in rows : SameKey(o, n) => o = r
    BY <1>1, <1>3, <2>1 DEF Unique, SameKey, Shows
  <2>5. n \in rows'
    BY <2>1, <2>4, Replaced
  <2>6. \A q \in Results' : SameKey(q, n) /\ e \notin q.from => q.at < n.at
    <3>1. ASSUME NEW q \in Results', SameKey(q, n), e \notin q.from PROVE q.at < n.at
      <4>1. q \in Results /\ SameKey(q, r)
        BY <2>1, <3>1 DEF Fewer, SameKey
      <4>2. q.at < r.at /\ q.at \in Nat /\ r.at \in Nat /\ n.at \in Nat
        BY <1>1, <1>2, <1>3, <3>1, <4>1
      <4>3. QED
        BY <2>1, <4>2
    <3>2. QED
      BY <3>1
  <2>7. QED
    BY <2>2, <2>3, <2>5, <2>6 DEF Firm, Shows
<1>6. QED
  BY <1>4, <1>5

\* What the block itself has of the promise becomes firm: the row of a later block
\* that is not replaced knows the event as well.
LEMMA ComputedWritten ==
  ASSUME RowsInv, Fewer, NEW s \in Slots, rows' = Replace(rows, run[s].result),
         NEW e, NEW m, m # Sessions, Computed(e, m, s)
  PROVE  Firm(e, m)'
<1> DEFINE R == run[s].result
<1>1. PICK q \in R : /\ Shows(q, m, e) /\ e \in q.from
                     /\ \A p \in Results : SameKey(p, q) /\ e \notin p.from => p.at < q.at
  BY DEF Computed
<1>2. R \subseteq Results
  BY DEF Results
<1>3. /\ Unique(rows) /\ Unique(R) /\ \A r \in rows \cup Results : r.at \in Nat
  BY DEF RowsInv, RowOk
<1>4. CASE \A r \in rows : SameKey(r, q) => r.at <= q.at
  <2>1. q \in rows'
    BY <1>4, Replaced
  <2>2. QED
    BY <1>1, <2>1 DEF Firm, Fewer, Shows
<1>5. ASSUME NEW r \in rows, SameKey(r, q), ~(r.at <= q.at) PROVE Firm(e, m)'
  <2>1. q.at < r.at /\ SameKey(q, r)
    BY <1>2, <1>3, <1>5 DEF SameKey
  <2>2. q.mart # Sessions /\ Shows(r, m, e)
    BY <1>1, <2>1 DEF Shows, SameKey
  <2>3. e \in r.from
    BY <1>1, <1>2, <2>1, <2>2 DEF RowsInv, Ordered
  <2>4. \A n \in R : SameKey(r, n) => n = q
    BY <1>3, <2>1, <2>2 DEF Unique, SameKey
  <2>5. r \in rows'
    <3>1. r.at > q.at
      BY <1>2, <1>3, <2>1
    <3>2. QED
      BY <2>4, <3>1, Replaced
  <2>6. \A p \in Results' : SameKey(p, r) /\ e \notin p.from => p.at < r.at
    <3>1. ASSUME NEW p \in Results', SameKey(p, r), e \notin p.from PROVE p.at < r.at
      <4>1. p \in Results /\ SameKey(p, q)
        BY <2>1, <3>1 DEF Fewer, SameKey
      <4>2. p.at < q.at /\ p.at \in Nat /\ q.at \in Nat /\ r.at \in Nat
        BY <1>1, <1>2, <1>3, <3>1, <4>1
      <4>3. QED
        BY <2>1, <4>2
    <3>2. QED
      BY <3>1
  <2>7. QED
    BY <2>2, <2>3, <2>5, <2>6 DEF Firm, Shows
<1>6. QED
  BY <1>4, <1>5

\* A query computes a row for the day of each event of the window, from all events
\* of that row.
LEMMA Queried ==
  ASSUME NEW m, m # Sessions, NEW first, NEW last
  PROVE  LET R == Query(m, first, last)
         IN  /\ \A q \in R :
                  /\ q.mart = m /\ q.at = now
                  /\ \A e \in q.from : e \in Stored \cap Valid /\ Shows(q, m, e)
                  /\ \A e \in Stored \cap Valid : Shows(q, m, e) => e \in q.from
             /\ \A e \in Stored \cap Valid : e.day \in first .. last =>
                  \E q \in R : Shows(q, m, e) /\ e \in q.from
             /\ Unique(R)
<1> DEFINE all == InWindow(first, last)
           W == all \cap Valid
           Row(e) == [mart |-> m, day |-> e.day, key |-> Key(m, e), at |-> now,
                      from |-> { f \in W : f.day = e.day /\ Key(m, f) = Key(m, e) },
                      beside |-> Beside(m, e.day, all)]
           R == Query(m, first, last)
<1>1. R = { Row(e) : e \in W }
  BY DEF Query, Day, Sessions
<1>2. W = { e \in Stored \cap Valid : e.day \in first .. last }
  BY DEF InWindow, Valid, Stored
<1>3. ASSUME NEW e \in W
      PROVE  /\ Row(e).mart = m /\ Row(e).day = e.day /\ Row(e).key = Key(m, e)
             /\ Row(e).at = now
             /\ Row(e).from = { f \in W : f.day = e.day /\ Key(m, f) = Key(m, e) }
  OBVIOUS
<1>4. ASSUME NEW e \in W, NEW g \in W, SameKey(Row(e), Row(g)) PROVE Row(e) = Row(g)
  <2>1. e.day = g.day /\ Key(m, e) = Key(m, g)
    BY <1>3, <1>4 DEF SameKey
  <2>2. Beside(m, e.day, all) = Beside(m, g.day, all)
    BY <2>1
  <2>3. { f \in W : f.day = e.day /\ Key(m, f) = Key(m, e) }
          = { f \in W : f.day = g.day /\ Key(m, f) = Key(m, g) }
    BY <2>1
  <2>4. QED
    BY <2>1, <2>2, <2>3
<1> HIDE DEF Row, W, all
<1>5. ASSUME NEW q \in R
      PROVE  /\ q.mart = m /\ q.at = now
             /\ \A e \in q.from : e \in Stored \cap Valid /\ Shows(q, m, e)
             /\ \A e \in Stored \cap Valid : Shows(q, m, e) => e \in q.from
  <2>1. PICK e0 \in W : q = Row(e0)
    BY <1>1, <1>5
  <2>2. QED
    BY <1>2, <1>3, <2>1 DEF Shows
<1>6. ASSUME NEW e \in Stored \cap Valid, e.day \in first .. last
      PROVE  \E q \in R : Shows(q, m, e) /\ e \in q.from
  <2>1. e \in W
    BY <1>2, <1>6
  <2>2. Row(e) \in R
    BY <1>1, <2>1
  <2>3. Shows(Row(e), m, e) /\ e \in Row(e).from
    BY <1>3, <2>1 DEF Shows
  <2>4. QED
    BY <2>2, <2>3
<1>7. Unique(R)
  BY <1>1, <1>4 DEF Unique
<1> HIDE DEF R
<1>8. QED
  BY <1>5, <1>6, <1>7 DEF R

\* The rows of a query, at a time that may be another one than now.
Row(m, day, key, at, from, beside) ==
  [mart |-> m, day |-> day, key |-> key, at |-> at, from |-> from, beside |-> beside]
Group(m, e, W) == { f \in W : Day(m, f, W) = Day(m, e, W) /\ Key(m, f) = Key(m, e) }
RowsAt(m, first, last, at) ==
  LET all == InWindow(first, last)
      W == all \cap Valid
  IN  { Row(m, Day(m, e, W), Key(m, e), at, Group(m, e, W), Beside(m, Day(m, e, W), all)) :
          e \in W }

LEMMA RowFields ==
  ASSUME NEW m, NEW d, NEW k, NEW t, NEW f, NEW b
  PROVE  /\ Row(m, d, k, t, f, b).mart = m /\ Row(m, d, k, t, f, b).day = d
         /\ Row(m, d, k, t, f, b).key = k /\ Row(m, d, k, t, f, b).at = t
         /\ Row(m, d, k, t, f, b).from = f /\ Row(m, d, k, t, f, b).beside = b
  BY DEF Row

LEMMA QueryRows ==
  ASSUME NEW m, NEW first, NEW last
  PROVE  Query(m, first, last) = RowsAt(m, first, last, now)
  BY DEF Query, RowsAt, Row, Group

\* Day and key of a row determine the rest.
LEMMA OneRow ==
  ASSUME NEW m, NEW first, NEW last, NEW at
  PROVE  /\ \A q \in RowsAt(m, first, last, at) : q.mart = m /\ q.at = at
         /\ Unique(RowsAt(m, first, last, at))
<1> DEFINE all == InWindow(first, last)
           W == all \cap Valid
           R(e) == Row(m, Day(m, e, W), Key(m, e), at, Group(m, e, W),
                       Beside(m, Day(m, e, W), all))
<1>1. RowsAt(m, first, last, at) = { R(e) : e \in W }
  BY DEF RowsAt
<1>2. ASSUME NEW e
      PROVE  /\ R(e).mart = m /\ R(e).at = at
             /\ R(e).day = Day(m, e, W) /\ R(e).key = Key(m, e)
  BY RowFields
<1>3. ASSUME NEW e, NEW g, Day(m, e, W) = Day(m, g, W), Key(m, e) = Key(m, g)
      PROVE  R(e) = R(g)
  <2>1. Group(m, e, W) = Group(m, g, W)
    BY <1>3 DEF Group
  <2>2. QED
    BY <1>3, <2>1
<1> HIDE DEF R, W, all
<1>4. QED
  BY <1>1, <1>2, <1>3 DEF Unique, SameKey

-----------------------------------------------------------------------------
(* The runs. *)

\* What the invariant says of a run is about these.
SameRun(t) ==
  /\ DOMAIN run'[t] = Fields
  /\ run'[t].pc = run[t].pc /\ run'[t].upper = run[t].upper /\ run'[t].next = run[t].next
  /\ run'[t].first = run[t].first /\ run'[t].last = run[t].last
  /\ run'[t].result = run[t].result

LEMMA DisturbedSame ==
  ASSUME NEW S, NEW t \in Slots, RunTyped(t), run'[t] = Disturbed(S)[t]
  PROVE  SameRun(t)
<1>1. run'[t] = [run[t] EXCEPT !.quiet = @ /\ t \notin S]
  BY DEF Disturbed
<1>2. DOMAIN run[t] = Fields
  BY DEF RunTyped
<1>3. QED
  BY <1>1, <1>2 DEF SameRun, Fields

LEMMA StepRuns ==
  ASSUME NEW s \in Slots, NEW r, Step(s, r), \A t \in Slots : RunTyped(t)
  PROVE  run'[s] = r /\ \A t \in Slots \ {s} : SameRun(t)
<1>1. run' = [Disturbed(Slots \ {s}) EXCEPT ![s] = r]
  BY DEF Step
<1>2. DOMAIN Disturbed(Slots \ {s}) = Slots
  BY DEF Disturbed
<1>3. run'[s] = r /\ \A t \in Slots \ {s} : run'[t] = Disturbed(Slots \ {s})[t]
  BY <1>1, <1>2
<1>4. QED
  BY <1>3, DisturbedSame

Kept == \A e \in Valid, m \in Marts \ {Sessions} : Firm(e, m) => Firm(e, m)'

KeptComputed(t) ==
  \A e \in Valid, m \in Marts \ {Sessions} : Computed(e, m, t) => Computed(e, m, t)'

LEMMA MartsOfRun ==
  ASSUME ClockTyped, NEW t \in Slots, RunTyped(t), run[t].pc \in {"query", "insert"}
  PROVE  /\ Filled(t) \subseteq Marts \ {Sessions} /\ Current(t) \subseteq Marts \ {Sessions}
         /\ run[t].next \in Nat \ {0} /\ run[t].next <= Len(order)
<1>1. run[t].next \in DOMAIN order /\ order \in Seq(STRING)
  BY OrdersAssumption DEF RunTyped, ClockTyped
<1>2. DOMAIN order = 1 .. Len(order) /\ Len(order) \in Nat
  BY <1>1
<1>3. 1 .. run[t].next - 1 \subseteq DOMAIN order
  BY <1>1, <1>2
<1>4. QED
  BY <1>1, <1>2, <1>3 DEF Filled, Current, Marts

LEMMA OtherRun ==
  ASSUME ClockTyped, NEW t \in Slots, RunTyped(t), Progress(t), SameRun(t), order' = order,
         Kept, KeptComputed(t), Stored \subseteq Stored',
         \A e \in Events : age[e] = SafetyDelay => age'[e] = age[e]
  PROVE  RunTyped(t)' /\ Progress(t)'
<1>1. RunTyped(t)'
  BY DEF RunTyped, SameRun
<1>2. /\ Promised(t)' = Promised(t) /\ Promised(t) \subseteq Valid
      /\ Marts' = Marts /\ Filled(t)' = Filled(t) /\ Current(t)' = Current(t)
  BY DEF Promised, SameRun, Marts, Filled, Current
<1>3. ASSUME run[t].pc \in {"query", "insert"}
      PROVE  Filled(t) \subseteq Marts \ {Sessions} /\ Current(t) \subseteq Marts \ {Sessions}
  BY <1>3, MartsOfRun
<1>4. ASSUME run[t].pc \in {"query", "insert"}
      PROVE  \A e \in run'[t].upper : age'[e] = SafetyDelay
                                      /\ e.day \in run'[t].first .. run'[t].last
  BY <1>4 DEF Progress, RunTyped, SameRun, Stored
<1>5. ASSUME run[t].pc \in {"query", "insert"}
      PROVE  \A e \in Promised(t), m \in Filled(t) : Firm(e, m)'
  BY <1>2, <1>3, <1>5 DEF Progress, Kept
<1>6. ASSUME run[t].pc = "insert"
      PROVE  \A e \in Promised(t), m \in Current(t) : Computed(e, m, t)'
  BY <1>2, <1>3, <1>6 DEF Progress, KeptComputed
<1>7. ASSUME run[t].pc = "mark"
      PROVE  \A e \in Promised(t), m \in Marts \ {Sessions} : Firm(e, m)'
  BY <1>2, <1>7 DEF Progress, Kept
<1>8. Progress(t)'
  <2>1. run'[t].pc = run[t].pc
    BY DEF SameRun
  <2>2. QED
    BY <1>2, <1>4, <1>5, <1>6, <1>7, <2>1 DEF Progress
<1>9. QED
  BY <1>1, <1>8

\* A step of one run that computes no row, and perhaps writes its own.
NoQuery(s, r) ==
  /\ Step(s, r) /\ r.result = {}
  /\ UNCHANGED <<now, settings, age>>
  /\ \/ rows' = rows
     \/ run[s].pc = "insert" /\ rows' = Replace(rows, run[s].result)

LEMMA NoQueryKeeps ==
  ASSUME IInv, NEW s \in Slots, NEW r, NoQuery(s, r)
  PROVE  /\ RowsInv' /\ Kept /\ Fewer
         /\ run'[s] = r /\ \A t \in Slots \ {s} : RunTyped(t)' /\ Progress(t)'
<1>1. run'[s] = r /\ r.result = {} /\ \A t \in Slots \ {s} : SameRun(t)
  BY StepRuns DEF NoQuery, IInv
<1>2. \A t \in Slots : run'[t].result \in {run[t].result, {}}
  BY <1>1 DEF SameRun
<1>3. Fewer
  BY <1>2 DEF Fewer, Results
<1>4. UNCHANGED <<now, age, order>>
  BY DEF NoQuery, settings
<1>5. \/ rows' = rows
      \/ rows' = Replace(rows, run[s].result)
  BY DEF NoQuery
<1>6. /\ Unique(rows) /\ Unique(run[s].result) /\ run[s].result \subseteq Results
      /\ \A q \in rows \cup Results : q.at \in Nat
  BY DEF IInv, RowsInv, RowOk, Results
<1>7. rows' \subseteq rows \cup Results
  BY <1>5, <1>6, Replaced
<1>8. Unique(rows)'
  <2>1. CASE rows' = rows
    BY <1>6, <2>1 DEF Unique
  <2>2. CASE rows' = Replace(rows, run[s].result)
    BY <1>6, <2>2, ReplacedUnique
  <2>3. QED
    BY <1>5, <2>1, <2>2
<1>9. RowsInv'
  BY <1>2, <1>3, <1>4, <1>7, <1>8, FewerRows DEF IInv
<1>10. Kept
  BY <1>3, <1>5, FirmStays, FirmWritten DEF Kept, IInv
<1>11. ASSUME NEW t \in Slots \ {s} PROVE KeptComputed(t)
  BY <1>1, <1>3 DEF KeptComputed, Computed, Fewer, SameRun, Shows
<1>12. Stored' = Stored
  BY <1>4 DEF Stored
<1>13. ASSUME NEW t \in Slots \ {s} PROVE RunTyped(t)' /\ Progress(t)'
  BY <1>1, <1>4, <1>10, <1>11, <1>12, OtherRun DEF IInv
<1>14. QED
  BY <1>1, <1>3, <1>9, <1>10, <1>13

\* The watermark changes only at the end of a run.
MarkStep(s) == mark' = mark \/ (run[s].pc = "mark" /\ mark' = run[s].upper)

LEMMA NoQueryStep ==
  ASSUME IInv, NEW s \in Slots, NEW r, NoQuery(s, r), MarkStep(s), RunTyped(s)', Progress(s)'
  PROVE  IInv'
<1>1. /\ RowsInv' /\ Kept
      /\ \A t \in Slots : RunTyped(t)' /\ Progress(t)'
  BY NoQueryKeeps
<1>2. UNCHANGED <<now, order, age>> /\ Stored' = Stored /\ Marts' = Marts
  BY DEF NoQuery, settings, Stored, Marts
<1>3. mark' \subseteq Stored
  BY DEF MarkStep, IInv, ClockTyped, RunTyped
<1>4. ClockTyped'
  BY <1>2, <1>3 DEF IInv, ClockTyped
<1>5. \A e \in mark' \cap Valid, m \in Marts \ {Sessions} : Firm(e, m)
  BY DEF MarkStep, IInv, Progress, Promised
<1>6. \A e \in mark' \cap Valid, m \in Marts \ {Sessions} : Firm(e, m)'
  BY <1>1, <1>5 DEF Kept
<1>7. QED
  BY <1>1, <1>2, <1>4, <1>6 DEF IInv

\* Records of a run that has not begun to fill the marts.
LEMMA IdleFields ==
  /\ DOMAIN Idle = Fields /\ Idle.pc = "idle" /\ Idle.upper = {} /\ Idle.result = {}
  BY DEF Idle, Fields

LEMMA Begun ==
  ASSUME NEW s \in Slots, DOMAIN run'[s] = Fields,
         run'[s].pc \in {"idle", "read"}, run'[s].upper = {}, run'[s].result = {}
  PROVE  RunTyped(s)' /\ Progress(s)'
  BY DEF RunTyped, Progress

LEMMA EnsureStateKeeps ==
  ASSUME IInv, NEW s \in Slots, EnsureState(s)
  PROVE  IInv'
<1> DEFINE r == [Idle EXCEPT !.pc = "read"]
<1>1. DOMAIN r = Fields /\ r.pc = "read" /\ r.upper = {} /\ r.result = {}
  BY IdleFields DEF Fields
<1>2. NoQuery(s, r) /\ MarkStep(s)
  BY <1>1 DEF EnsureState, NoQuery, MarkStep
<1> HIDE DEF r
<1>3. run'[s] = r
  BY <1>2, NoQueryKeeps
<1>4. RunTyped(s)' /\ Progress(s)'
  BY <1>1, <1>3, Begun
<1>5. QED
  BY <1>2, <1>4, NoQueryStep

LEMMA UpdateMarkKeeps ==
  ASSUME IInv, NEW s \in Slots, UpdateMark(s)
  PROVE  IInv'
<1> DEFINE r == [Idle EXCEPT !.quiet = run[s].quiet]
<1>1. DOMAIN r = Fields /\ r.pc = "idle" /\ r.upper = {} /\ r.result = {}
  BY IdleFields DEF Fields
<1>2. NoQuery(s, r) /\ MarkStep(s)
  BY <1>1 DEF UpdateMark, Finish, NoQuery, MarkStep
<1> HIDE DEF r
<1>3. run'[s] = r
  BY <1>2, NoQueryKeeps
<1>4. RunTyped(s)' /\ Progress(s)'
  BY <1>1, <1>3, Begun
<1>5. QED
  BY <1>2, <1>4, NoQueryStep

LEMMA FailKeeps ==
  ASSUME IInv, NEW s \in Slots, Fail(s)
  PROVE  IInv'
<1> DEFINE again == [Idle EXCEPT !.pc = "read"]
           retried == [again EXCEPT !.attempt = run[s].attempt + 1]
           lost == [Idle EXCEPT !.quiet = FALSE]
<1>1. DOMAIN again = Fields /\ again.pc = "read" /\ again.upper = {} /\ again.result = {}
  BY IdleFields DEF Fields
<1>2. DOMAIN lost = Fields /\ lost.pc = "idle" /\ lost.upper = {} /\ lost.result = {}
  BY IdleFields DEF Fields
<1>3. Step(s, retried) \/ Step(s, lost)
  BY DEF Fail, Retry, Finish
<1> HIDE DEF again
<1>4. /\ DOMAIN retried = Fields /\ retried.pc = "read" /\ retried.upper = {}
      /\ retried.result = {}
  BY <1>1 DEF Fields
<1> HIDE DEF retried, lost
<1>5. PICK r \in {retried, lost} : Step(s, r)
  BY <1>3
<1>6. DOMAIN r = Fields /\ r.pc \in {"idle", "read"} /\ r.upper = {} /\ r.result = {}
  BY <1>2, <1>4
<1>7. NoQuery(s, r) /\ MarkStep(s)
  BY <1>5, <1>6 DEF Fail, NoQuery, MarkStep
<1>8. run'[s] = r
  BY <1>7, NoQueryKeeps
<1>9. RunTyped(s)' /\ Progress(s)'
  BY <1>6, <1>8, Begun
<1>10. QED
  BY <1>7, <1>9, NoQueryStep

LEMMA WriteKeeps ==
  ASSUME IInv, NEW s \in Slots, Write(s)
  PROVE  IInv'
<1> DEFINE last == run[s].next = Len(order)
           moved == [run[s] EXCEPT !.pc = IF last THEN "mark" ELSE "query"]
           counted == [moved EXCEPT !.next = IF last THEN 1 ELSE run[s].next + 1]
           r == [counted EXCEPT !.result = {}]
<1>1. /\ run[s].pc = "insert" /\ rows' = Replace(rows, run[s].result)
      /\ Step(s, r) /\ UNCHANGED <<now, settings, age, mark>>
  BY DEF Write, AfterInsert
<1>2. DOMAIN run[s] = Fields
  BY DEF IInv, RunTyped
<1>3. /\ DOMAIN r = Fields /\ r.pc = (IF last THEN "mark" ELSE "query")
      /\ r.next = (IF last THEN 1 ELSE run[s].next + 1)
      /\ r.result = {} /\ r.upper = run[s].upper
      /\ r.first = run[s].first /\ r.last = run[s].last
  <2>1. /\ DOMAIN moved = Fields /\ moved.pc = (IF last THEN "mark" ELSE "query")
        /\ moved.upper = run[s].upper /\ moved.first = run[s].first /\ moved.last = run[s].last
    BY <1>2 DEF Fields
  <2> HIDE DEF moved
  <2>2. /\ DOMAIN counted = Fields /\ counted.pc = moved.pc
        /\ counted.next = (IF last THEN 1 ELSE run[s].next + 1)
        /\ counted.upper = moved.upper /\ counted.first = moved.first
        /\ counted.last = moved.last
    BY <2>1 DEF Fields
  <2> HIDE DEF counted
  <2>3. QED
    BY <2>1, <2>2 DEF Fields
<1> HIDE DEF r
<1>4. NoQuery(s, r) /\ MarkStep(s)
  BY <1>1, <1>3 DEF NoQuery, MarkStep
<1>5. RowsInv' /\ Kept /\ Fewer /\ run'[s] = r
  BY <1>4, NoQueryKeeps
<1>6. /\ Filled(s) \subseteq Marts \ {Sessions} /\ Current(s) \subseteq Marts \ {Sessions}
      /\ run[s].next \in Nat \ {0} /\ run[s].next <= Len(order) /\ Len(order) \in Nat
      /\ order \in Seq(STRING)
  BY <1>1, MartsOfRun, OrdersAssumption DEF IInv, ClockTyped
<1>7. \A e \in Promised(s), m \in Filled(s) \cup Current(s) : Firm(e, m)'
  <2>1. TAKE e \in Promised(s), m \in Filled(s) \cup Current(s)
  <2>2. e \in Valid /\ m \in Marts \ {Sessions}
    BY <1>6 DEF Promised
  <2>3. CASE m \in Filled(s)
    <3>1. Firm(e, m)
      BY <1>1, <2>3 DEF IInv, Progress
    <3>2. QED
      BY <1>5, <2>2, <3>1 DEF Kept
  <2>4. CASE m \in Current(s)
    <3>1. Computed(e, m, s)
      BY <1>1, <2>4 DEF IInv, Progress
    <3>2. QED
      BY <1>1, <1>5, <2>2, <3>1, ComputedWritten DEF IInv
  <2>5. QED
    BY <2>3, <2>4
<1>8. /\ order' = order /\ Stored' = Stored /\ age' = age /\ Promised(s)' = Promised(s)
      /\ Marts' = Marts
  BY <1>1, <1>3, <1>5 DEF settings, Stored, Promised, Marts
<1>9. \A i \in 1 .. run[s].next : order[i] \in Filled(s) \cup Current(s) \cup {Sessions}
  BY <1>6 DEF Filled, Current
<1>10. RunTyped(s)'
  <2>1. ~last => run[s].next + 1 \in DOMAIN order
    BY <1>6
  <2>2. run[s].upper \subseteq Stored
    BY DEF IInv, RunTyped
  <2>3. QED
    BY <1>3, <1>5, <1>8, <2>1, <2>2 DEF RunTyped
<1>11. Progress(s)'
  <2>1. CASE last
    <3>1. Marts \ {Sessions} \subseteq Filled(s) \cup Current(s)
      BY <1>6, <1>9, <2>1 DEF Marts
    <3>2. QED
      BY <1>3, <1>5, <1>7, <1>8, <2>1, <3>1 DEF Progress
  <2>2. CASE ~last
    <3>1. Filled(s)' \subseteq Filled(s) \cup Current(s)
      <4>1. run'[s].next - 1 = run[s].next
        BY <1>3, <1>5, <1>6, <2>2
      <4>2. QED
        BY <1>8, <1>9, <4>1 DEF Filled
    <3>2. \A e \in run[s].upper : age[e] = SafetyDelay /\ e.day \in run[s].first .. run[s].last
      BY <1>1 DEF IInv, Progress
    <3>3. QED
      BY <1>3, <1>5, <1>7, <1>8, <2>2, <3>1, <3>2 DEF Progress
  <2>3. QED
    BY <2>1, <2>2
<1>12. QED
  BY <1>4, <1>10, <1>11, NoQueryStep

-----------------------------------------------------------------------------
(* The window and the queries. *)

Smaller == {ss \in Nat \X Nat : ss[1] < ss[2]}

LEMMA LeastOf ==
  ASSUME NEW S, S \subseteq Nat, S # {}
  PROVE  Least(S) \in S /\ \A y \in S : Least(S) <= y
<1>1. IsWellFoundedOn(Smaller, Nat)
  BY NatLessThanWellFounded DEF OpToRel, Smaller
<1>2. PICK x \in S : \A y \in S : ~ (<<y, x>> \in Smaller)
  BY <1>1, WFMin
<1>3. \A y \in S : x <= y
  <2>1. TAKE y \in S
  <2>2. x \in Nat /\ y \in Nat
    BY <1>2
  <2>3. y < x => <<y, x>> \in Smaller
    BY <2>2 DEF Smaller
  <2>4. QED
    BY <1>2, <2>2, <2>3
<1>4. QED
  BY <1>2, <1>3 DEF Least

LEMMA WindowDays ==
  ASSUME ClockTyped
  PROVE  StartDay \in Int /\ EndDay \in Int /\ MinDayPrepared \in Int
<1>1. EndDay \in Int
  BY MartsAssumption DEF ClockTyped, EndDay, Today
<1>2. MinDayPrepared \in Int
  <2>1. CASE Stored \cap Valid = {}
    BY <2>1, MartsAssumption DEF MinDayPrepared, Epoch
  <2>2. CASE Stored \cap Valid # {}
    <3> DEFINE days == { e.day : e \in Stored \cap Valid }
    <3>1. days \subseteq Nat /\ days # {}
      BY <2>2, EventsAssumption DEF Valid, Events
    <3>2. Least(days) \in Nat
      BY <3>1, LeastOf
    <3>3. QED
      BY <2>2, <3>2 DEF MinDayPrepared
  <2>3. QED
    BY <2>1, <2>2
<1>3. StartDay \in Int
  BY <1>1, <1>2, MartsAssumption DEF StartDay, Larger
<1>4. QED
  BY <1>1, <1>2, <1>3

LEMMA ReadWindowKeeps ==
  ASSUME IInv, NEW s \in Slots, ReadWindow(s)
  PROVE  IInv'
<1> DEFINE upper == { e \in UpperTs : e.day \in StartDay .. EndDay }
           r == [pc |-> IF StartDay > EndDay THEN "mark" ELSE "query",
                 upper |-> upper, first |-> StartDay, last |-> EndDay, next |-> 1,
                 result |-> {}, attempt |-> run[s].attempt, quiet |-> TRUE]
<1>1. /\ Step(s, r) /\ run[s].pc = "read"
      /\ UNCHANGED <<now, settings, age, rows, mark, failures>>
  BY DEF ReadWindow
<1>2. StartDay \in Int /\ EndDay \in Int
  BY WindowDays DEF IInv
<1>3. \A e \in upper : e \in Stored /\ age[e] = SafetyDelay /\ e.day \in StartDay .. EndDay
  BY MartsAssumption DEF UpperTs, Stored, IInv, ClockTyped, Absent
<1>4. StartDay > EndDay => upper = {}
  BY <1>2
<1> HIDE DEF upper
<1>5. /\ DOMAIN r = Fields /\ r.pc = (IF StartDay > EndDay THEN "mark" ELSE "query")
      /\ r.upper = upper /\ r.first = StartDay /\ r.last = EndDay /\ r.next = 1
      /\ r.result = {}
  BY DEF Fields
<1> HIDE DEF r
<1>6. NoQuery(s, r) /\ MarkStep(s)
  BY <1>1, <1>5 DEF NoQuery, MarkStep
<1>7. run'[s] = r
  BY <1>6, NoQueryKeeps
<1>8. order' = order /\ age' = age /\ Stored' = Stored
  BY <1>1 DEF settings, Stored
<1>9. 1 \in DOMAIN order
  <2>1. order \in Seq(STRING) /\ order # <<>>
    BY OrdersAssumption DEF IInv, ClockTyped
  <2>2. QED
    BY <2>1
<1>10. RunTyped(s)'
  BY <1>3, <1>5, <1>7, <1>8, <1>9 DEF RunTyped
<1>11. Progress(s)'
  <2>1. Filled(s)' = {}
    BY <1>5, <1>7 DEF Filled
  <2>2. \A e \in run'[s].upper : age'[e] = SafetyDelay /\ e.day \in run'[s].first .. run'[s].last
    BY <1>3, <1>5, <1>7, <1>8
  <2>3. run'[s].pc = "mark" => Promised(s)' = {}
    BY <1>4, <1>5, <1>7 DEF Promised
  <2>4. run'[s].pc \in {"mark", "query"}
    BY <1>5, <1>7
  <2>5. QED
    BY <2>1, <2>2, <2>3, <2>4 DEF Progress
<1>12. QED
  BY <1>6, <1>10, <1>11, NoQueryStep

\* The rows R are computed now, from everything.
FreshRows(R) ==
  /\ Unique(R)
  /\ \A q \in R :
       /\ q.at = now
       /\ q.mart # Sessions =>
            /\ \A e \in q.from : e \in Stored \cap Valid /\ Shows(q, q.mart, e)
            /\ \A e \in Stored \cap Valid : Shows(q, q.mart, e) => e \in q.from

LEMMA QueryFresh ==
  ASSUME NEW m, NEW first, NEW last
  PROVE  FreshRows(Query(m, first, last)) /\ \A q \in Query(m, first, last) : q.mart = m
<1>1. CASE m = Sessions
  BY <1>1, QueryRows, OneRow DEF FreshRows
<1>2. CASE m # Sessions
  <2> DEFINE R == Query(m, first, last)
  <2>1. /\ \A q \in R :
             /\ q.mart = m /\ q.at = now
             /\ \A e \in q.from : e \in Stored \cap Valid /\ Shows(q, m, e)
             /\ \A e \in Stored \cap Valid : Shows(q, m, e) => e \in q.from
        /\ Unique(R)
    BY <1>2, Queried
  <2> HIDE DEF R
  <2>2. FreshRows(R) /\ \A q \in R : q.mart = m
    BY <2>1 DEF FreshRows
  <2>3. QED
    BY <2>2 DEF R
<1>3. QED
  BY <1>1, <1>2

LEMMA FreshKeepsRows ==
  ASSUME RowsInv, ClockTyped, NEW s \in Slots, NEW R, FreshRows(R),
         run'[s].result = R, \A t \in Slots \ {s} : run'[t].result = run[t].result,
         Results' \subseteq Results \cup R, UNCHANGED <<now, age, rows>>
  PROVE  RowsInv'
<1>1. /\ \A q \in rows \cup Results : RowOk(q)
      /\ \A q \in R : RowOk(q) /\ q.at = now /\ now \in Nat
  BY DEF RowsInv, FreshRows, RowOk, ClockTyped
<1>2. Stored' = Stored
  BY DEF Stored
<1>3. \A q \in (rows \cup Results)' : RowOk(q)'
  BY <1>1, <1>2 DEF RowOk
<1>4. \A q \in Results' : Aged(q)'
  <2>1. \A q \in Results \cup R : Aged(q)
    BY DEF RowsInv, FreshRows, Aged
  <2>2. QED
    BY <1>2, <2>1 DEF Aged
<1>5. ASSUME NEW r \in rows \cup Results \cup R, NEW q \in rows \cup Results \cup R
      PROVE  Ordered(r, q)
  <2>1. CASE r \in rows \cup Results /\ q \in rows \cup Results
    BY <2>1 DEF RowsInv
  <2>2. CASE r \in R
    <3>1. ~(r.at < q.at)
      BY <1>1, <2>2 DEF RowOk
    <3>2. QED
      BY <3>1 DEF Ordered
  <2>3. CASE q \in R
    <3>1. r.mart # Sessions /\ SameKey(r, q) => \A e \in r.from : e \in q.from
      BY <1>1, <2>3 DEF RowOk, FreshRows, Shows, SameKey
    <3>2. QED
      BY <3>1 DEF Ordered
  <2>4. QED
    BY <2>1, <2>2, <2>3
<1>6. \A r, q \in (rows \cup Results)' : Ordered(r, q)'
  BY <1>5 DEF Ordered
<1>7. Unique(rows)' /\ \A t \in Slots : Unique(run[t].result)'
  BY DEF RowsInv, Unique, FreshRows
<1>8. QED
  BY <1>3, <1>4, <1>6, <1>7 DEF RowsInv

LEMMA BeginKeeps ==
  ASSUME IInv, NEW s \in Slots, Begin(s)
  PROVE  IInv'
<1> DEFINE m == order[run[s].next]
           R == Query(m, run[s].first, run[s].last)
           begun == [run[s] EXCEPT !.pc = "insert"]
           r == [begun EXCEPT !.result = R]
<1>1. /\ run[s].pc = "query" /\ Step(s, r)
      /\ UNCHANGED <<now, settings, age, rows, mark, failures>>
  BY DEF Begin
<1>2. FreshRows(R) /\ \A q \in R : q.mart = m
  BY QueryFresh
<1>3. m # Sessions => \A e \in Stored \cap Valid : e.day \in run[s].first .. run[s].last =>
        \E q \in R : Shows(q, m, e) /\ e \in q.from
  BY Queried
<1> HIDE DEF R
<1>4. /\ DOMAIN r = Fields /\ r.pc = "insert" /\ r.result = R
      /\ r.upper = run[s].upper /\ r.next = run[s].next
      /\ r.first = run[s].first /\ r.last = run[s].last
  <2>1. DOMAIN run[s] = Fields
    BY DEF IInv, RunTyped
  <2>2. /\ DOMAIN begun = Fields /\ begun.pc = "insert"
        /\ begun.upper = run[s].upper /\ begun.next = run[s].next
        /\ begun.first = run[s].first /\ begun.last = run[s].last
    BY <2>1 DEF Fields
  <2> HIDE DEF begun
  <2>3. QED
    BY <2>2 DEF Fields
<1> HIDE DEF r
<1>5. run'[s] = r /\ \A t \in Slots \ {s} : SameRun(t)
  BY <1>1, StepRuns DEF IInv
<1>6. order' = order /\ Stored' = Stored /\ Marts' = Marts /\ UNCHANGED <<now, age, rows, mark>>
  BY <1>1 DEF settings, Stored, Marts
<1>7. Results' \subseteq Results \cup R
  BY <1>4, <1>5 DEF Results, SameRun
<1>8. RowsInv'
  BY <1>2, <1>4, <1>5, <1>6, <1>7, FreshKeepsRows DEF IInv, SameRun
<1>9. \A q \in R : q.mart # Sessions =>
        \A e \in Stored \cap Valid : Shows(q, q.mart, e) => e \in q.from
  BY <1>2 DEF FreshRows
<1>10. ASSUME NEW e \in Valid, NEW x, x.mart # Sessions, Shows(x, x.mart, e), e \in Stored,
              \A q \in Results : SameKey(q, x) /\ e \notin q.from => q.at < x.at
       PROVE  \A q \in Results' : SameKey(q, x) /\ e \notin q.from => q.at < x.at
  BY <1>7, <1>9, <1>10 DEF Shows, SameKey
<1>11. \A q \in rows \cup Results : RowOk(q)
  BY DEF IInv, RowsInv
<1>12. Kept
  <2>1. ASSUME NEW e \in Valid, NEW n \in Marts \ {Sessions}, Firm(e, n) PROVE Firm(e, n)'
    <3>1. PICK x \in rows : /\ Shows(x, n, e) /\ e \in x.from
                            /\ \A q \in Results : SameKey(q, x) /\ e \notin q.from => q.at < x.at
      BY <2>1 DEF Firm
    <3>2. x.mart # Sessions /\ Shows(x, x.mart, e) /\ e \in Stored
      BY <1>11, <3>1 DEF Shows, RowOk
    <3>3. \A q \in Results' : SameKey(q, x) /\ e \notin q.from => q.at < x.at
      BY <1>10, <3>1, <3>2
    <3>4. QED
      BY <1>6, <3>1, <3>3 DEF Firm, Shows
  <2>2. QED
    BY <2>1 DEF Kept
<1>13. ASSUME NEW t \in Slots \ {s} PROVE KeptComputed(t)
  <2>1. ASSUME NEW e \in Valid, NEW n \in Marts \ {Sessions}, Computed(e, n, t)
        PROVE  Computed(e, n, t)'
    <3>1. PICK x \in run[t].result :
            /\ Shows(x, n, e) /\ e \in x.from
            /\ \A q \in Results : SameKey(q, x) /\ e \notin q.from => q.at < x.at
      BY <2>1 DEF Computed
    <3>2. x \in Results
      BY <1>13, <3>1 DEF Results
    <3>3. x.mart # Sessions /\ Shows(x, x.mart, e) /\ e \in Stored
      BY <1>11, <3>1, <3>2 DEF Shows, RowOk
    <3>4. \A q \in Results' : SameKey(q, x) /\ e \notin q.from => q.at < x.at
      BY <1>10, <3>1, <3>3
    <3>5. x \in run'[t].result
      BY <1>5, <1>13, <3>1 DEF SameRun
    <3>6. QED
      BY <3>1, <3>4, <3>5 DEF Computed, Shows
  <2>2. QED
    BY <2>1 DEF KeptComputed
<1>14. ASSUME NEW t \in Slots \ {s} PROVE RunTyped(t)' /\ Progress(t)'
  BY <1>5, <1>6, <1>12, <1>13, OtherRun DEF IInv
<1>15. RunTyped(s)'
  BY <1>1, <1>2, <1>4, <1>5, <1>6 DEF RunTyped, IInv
<1>16. ASSUME NEW e \in Promised(s), NEW n \in {m} \ {Sessions} PROVE Computed(e, n, s)'
  <2>0. n = m /\ n # Sessions
    BY <1>16
  <2>1. /\ e \in Stored \cap Valid /\ age[e] = SafetyDelay
        /\ e.day \in run[s].first .. run[s].last
    BY <1>1, <1>16 DEF Promised, IInv, RunTyped, Progress
  <2>2. PICK x \in R : Shows(x, n, e) /\ e \in x.from
    BY <1>3, <2>0, <2>1
  <2>3. x.at = now /\ now \in Nat /\ x.mart # Sessions
    BY <1>2, <2>0, <2>2 DEF FreshRows, IInv, ClockTyped, Shows
  <2>4. \A q \in Results : SameKey(q, x) /\ e \notin q.from => q.at < x.at
    <3>1. ASSUME NEW q \in Results, SameKey(q, x), e \notin q.from PROVE q.at < x.at
      <4>1. q.mart # Sessions /\ Shows(q, q.mart, e) /\ Aged(q) /\ q.at \in Nat
        BY <1>11, <2>2, <2>3, <3>1 DEF SameKey, Shows, IInv, RowsInv, RowOk
      <4>2. q.at <= now - SafetyDelay
        BY <2>1, <3>1, <4>1 DEF Aged
      <4>3. QED
        BY <2>3, <4>1, <4>2, MartsAssumption
    <3>2. QED
      BY <3>1
  <2>5. \A q \in Results' : SameKey(q, x) /\ e \notin q.from => q.at < x.at
    <3>1. Shows(x, x.mart, e) /\ e \in Valid /\ e \in Stored
      BY <2>1, <2>2 DEF Shows
    <3>2. QED
      BY <1>10, <2>3, <2>4, <3>1
  <2>6. x \in run'[s].result
    BY <1>4, <1>5, <2>2
  <2>7. QED
    BY <2>2, <2>5, <2>6 DEF Computed, Shows
<1>17. Progress(s)'
  <2>1. /\ Promised(s)' = Promised(s) /\ Filled(s)' = Filled(s) /\ Current(s)' = {m} \ {Sessions}
        /\ Promised(s) \subseteq Valid
    BY <1>4, <1>5, <1>6 DEF Promised, Filled, Current
  <2>2. \A e \in Promised(s), n \in Filled(s) : Firm(e, n)'
    <3>1. Filled(s) \subseteq Marts \ {Sessions}
      BY <1>1, MartsOfRun DEF IInv
    <3>2. \A e \in Promised(s), n \in Filled(s) : Firm(e, n)
      BY <1>1 DEF IInv, Progress
    <3>3. QED
      BY <1>12, <2>1, <3>1, <3>2 DEF Kept
  <2>3. \A e \in Promised(s), n \in {m} \ {Sessions} : Computed(e, n, s)'
    BY <1>16
  <2>4. \A e \in run'[s].upper : age'[e] = SafetyDelay /\ e.day \in run'[s].first .. run'[s].last
    BY <1>1, <1>4, <1>5, <1>6 DEF IInv, Progress
  <2>5. run'[s].pc = "insert"
    BY <1>4, <1>5
  <2>6. QED
    BY <2>1, <2>2, <2>3, <2>4, <2>5 DEF Progress
<1>18. ClockTyped' /\ \A e \in mark' \cap Valid, n \in Marts' \ {Sessions} : Firm(e, n)'
  BY <1>6, <1>12 DEF IInv, ClockTyped, Kept
<1>19. QED
  BY <1>8, <1>14, <1>15, <1>17, <1>18 DEF IInv

-----------------------------------------------------------------------------
(* The surroundings. *)

LEMMA Initially == Init => IInv
<1> SUFFICES ASSUME Init PROVE IInv
  OBVIOUS
<1>1. \A s \in Slots : run[s] = Idle
  BY DEF Init
<1>2. Results = {}
  BY <1>1, IdleFields DEF Results
<1>3. ClockTyped
  BY MartsAssumption DEF Init, ClockTyped, Stored, Absent
<1>4. \A s \in Slots : RunTyped(s) /\ Progress(s)
  BY <1>1, IdleFields DEF RunTyped, Progress
<1>5. \A r \in rows : /\ r.at = 0 /\ r.from = {} /\ r.day = 0 /\ r.beside = {}
                      /\ r = [mart |-> r.mart, day |-> 0, key |-> r.key, at |-> 0,
                              from |-> {}, beside |-> {}]
  <2> SUFFICES ASSUME NEW r \in rows
               PROVE  /\ r.at = 0 /\ r.from = {} /\ r.day = 0 /\ r.beside = {}
                      /\ r = [mart |-> r.mart, day |-> 0, key |-> r.key, at |-> 0,
                              from |-> {}, beside |-> {}]
    OBVIOUS
  <2>1. PICK m \in Marts :
          r = [mart |-> m, day |-> 0, key |-> IF m \in Keyed THEN "seed" ELSE "",
               at |-> 0, from |-> {}, beside |-> {}]
    BY DEF Init, Seeds
  <2> DEFINE k == IF m \in Keyed THEN "seed" ELSE ""
  <2>2. r = [mart |-> m, day |-> 0, key |-> k, at |-> 0, from |-> {}, beside |-> {}]
    BY <2>1
  <2> HIDE DEF k
  <2>3. QED
    BY <2>2
<1>6. Unique(rows)
  BY <1>5 DEF Unique, SameKey
<1>7. \A s \in Slots : Unique(run[s].result)
  BY <1>1, IdleFields DEF Unique
<1>8. \A r \in rows \cup Results : RowOk(r)
  BY <1>2, <1>5, <1>3 DEF RowOk, ClockTyped
<1>9. \A r, q \in rows \cup Results : Ordered(r, q)
  BY <1>2, <1>5 DEF Ordered
<1>10. RowsInv
  BY <1>2, <1>6, <1>7, <1>8, <1>9 DEF RowsInv
<1>11. mark = {}
  BY DEF Init
<1>12. QED
  BY <1>3, <1>4, <1>10, <1>11 DEF IInv

\* Time passes, or an event is stored: no row changes.
Outside ==
  /\ UNCHANGED <<rows, mark, order>>
  /\ \A s \in Slots : SameRun(s)
  /\ now' \in Nat /\ now' >= now
  /\ age' \in [Events -> {Absent} \cup 0 .. SafetyDelay]
  /\ \A e \in Stored : age'[e] # Absent /\ now' - age'[e] >= now - age[e]
  /\ \A e \in Events \ Stored : age'[e] # Absent => age'[e] = 0
  /\ \A e \in Events : age[e] = SafetyDelay => age'[e] = age[e]

LEMMA OutsideKeeps ==
  ASSUME IInv, Outside
  PROVE  IInv'
<1>1. Stored \subseteq Stored' /\ Results' = Results /\ Marts' = Marts
  BY DEF Outside, SameRun, Stored, Results, Marts
<1>2. Kept /\ \A s \in Slots : KeptComputed(s)
  BY <1>1 DEF Kept, KeptComputed, Firm, Computed, Shows, Outside, SameRun
<1>3. ClockTyped'
  BY <1>1 DEF IInv, ClockTyped, Outside
<1>4. \A s \in Slots : RunTyped(s)' /\ Progress(s)'
  BY <1>1, <1>2, OtherRun DEF IInv, Outside
<1>5. now \in Nat /\ now' \in Nat /\ now' >= now
  BY DEF IInv, ClockTyped, Outside
<1>6. \A q \in rows \cup Results : RowOk(q)'
  <2>1. TAKE q \in rows \cup Results
  <2>2. RowOk(q)
    BY DEF IInv, RowsInv
  <2>3. q.at \in Nat /\ q.at <= now'
    BY <1>5, <2>2 DEF RowOk
  <2>4. QED
    BY <1>1, <2>2, <2>3 DEF RowOk
<1>7. ASSUME NEW q \in Results, q.mart # Sessions, NEW e \in Stored' \cap Valid,
             Shows(q, q.mart, e), e \notin q.from
      PROVE  q.at <= now' - age'[e]
  <2>1. q.at \in Nat /\ q.at <= now /\ Aged(q)
    BY DEF IInv, RowsInv, RowOk
  <2>2. e \in Events
    BY DEF Stored
  <2>3. age[e] \in Int /\ age'[e] \in Int
    BY <2>2, MartsAssumption DEF IInv, ClockTyped, Outside, Absent
  <2>4. CASE e \in Stored
    <3>1. q.at <= now - age[e]
      BY <1>7, <2>1, <2>4 DEF Aged
    <3>2. now' - age'[e] >= now - age[e]
      BY <2>4 DEF Outside
    <3>3. QED
      BY <1>5, <2>1, <2>3, <3>1, <3>2
  <2>5. CASE e \notin Stored
    <3>1. age'[e] = 0
      BY <2>2, <2>5, <1>7 DEF Outside, Stored
    <3>2. QED
      BY <1>5, <2>1, <3>1
  <2>6. QED
    BY <2>4, <2>5
<1>8. \A q \in Results' : Aged(q)'
  BY <1>1, <1>7 DEF Aged, Shows
<1>9. RowsInv'
  <2>1. Unique(rows)' /\ \A s \in Slots : Unique(run[s].result)'
    BY DEF IInv, RowsInv, Unique, Outside, SameRun
  <2>2. \A r, q \in (rows \cup Results)' : Ordered(r, q)'
    BY <1>1 DEF IInv, RowsInv, Ordered, Outside
  <2>3. QED
    BY <1>1, <1>6, <1>8, <2>1, <2>2 DEF RowsInv, Outside
<1>10. \A e \in mark' \cap Valid, m \in Marts' \ {Sessions} : Firm(e, m)'
  BY <1>1, <1>2 DEF IInv, Kept, Outside
<1>11. QED
  BY <1>3, <1>4, <1>9, <1>10 DEF IInv

LEMMA TickOutside ==
  ASSUME IInv, Tick
  PROVE  Outside
<1>1. /\ now' = now + 1 /\ UNCHANGED <<settings, rows, mark>>
      /\ age' = [e \in Events |-> IF age[e] \in {Absent, SafetyDelay} THEN age[e] ELSE age[e] + 1]
      /\ run' = run \/ run' = Disturbed(Slots)
  BY DEF Tick
<1>2. now \in Nat /\ age \in [Events -> {Absent} \cup 0 .. SafetyDelay]
  BY DEF IInv, ClockTyped
<1>3. \A s \in Slots : SameRun(s)
  <2>1. TAKE s \in Slots
  <2>2. RunTyped(s)
    BY DEF IInv
  <2>3. CASE run' = run
    BY <2>2, <2>3 DEF SameRun, RunTyped
  <2>4. CASE run' = Disturbed(Slots)
    BY <2>2, <2>4, DisturbedSame
  <2>5. QED
    BY <1>1, <2>3, <2>4
<1>4. \A e \in Events : age[e] = Absent \/ (age[e] \in Nat /\ age[e] <= SafetyDelay)
  BY <1>2, MartsAssumption
<1>5. age' \in [Events -> {Absent} \cup 0 .. SafetyDelay]
  <2>1. \A e \in Events : age'[e] \in {Absent} \cup 0 .. SafetyDelay
    BY <1>1, <1>2, <1>4, MartsAssumption
  <2>2. QED
    BY <1>1, <2>1
<1>6. \A e \in Stored : age'[e] # Absent /\ now' - age'[e] >= now - age[e]
  BY <1>1, <1>2, <1>4, MartsAssumption DEF Stored, Absent
<1>7. \A e \in Events : /\ e \notin Stored => age'[e] = Absent
                        /\ age[e] = SafetyDelay => age'[e] = age[e]
  BY <1>1 DEF Stored
<1>8. QED
  BY <1>1, <1>2, <1>3, <1>5, <1>6, <1>7 DEF Outside, settings

LEMMA ArriveOutside ==
  ASSUME IInv, NEW e \in Events, Arrive(e)
  PROVE  Outside
<1>1. /\ age[e] = Absent /\ age' = [age EXCEPT ![e] = 0]
      /\ run' = Disturbed(Slots)
      /\ UNCHANGED <<now, settings, rows, mark>>
  BY DEF Arrive
<1>2. now \in Nat /\ age \in [Events -> {Absent} \cup 0 .. SafetyDelay]
  BY DEF IInv, ClockTyped
<1>3. \A s \in Slots : SameRun(s)
  BY <1>1, DisturbedSame DEF IInv
<1>4. age' \in [Events -> {Absent} \cup 0 .. SafetyDelay]
  BY <1>1, <1>2, MartsAssumption
<1>5. \A f \in Stored : age'[f] = age[f] /\ age[f] # Absent /\ age[f] \in Int
  BY <1>1, <1>2, MartsAssumption DEF Stored, Absent
<1>6. \A f \in Events \ Stored : age'[f] # Absent => age'[f] = 0
  BY <1>1, <1>2 DEF Stored
<1>7. \A f \in Events : age[f] = SafetyDelay => age'[f] = age[f]
  BY <1>1, <1>2, MartsAssumption DEF Absent
<1>8. QED
  BY <1>1, <1>2, <1>3, <1>4, <1>5, <1>6, <1>7 DEF Outside, settings

LEMMA StutterOutside ==
  ASSUME IInv, UNCHANGED vars
  PROVE  Outside
<1>1. UNCHANGED <<now, order, age, rows, mark, run>>
  BY DEF vars, settings
<1>2. now \in Nat /\ age \in [Events -> {Absent} \cup 0 .. SafetyDelay]
  BY DEF IInv, ClockTyped
<1>3. \A f \in Stored : age[f] # Absent /\ age[f] \in Int
  BY <1>2, MartsAssumption DEF Stored, Absent
<1>4. \A s \in Slots : SameRun(s)
  BY <1>1 DEF IInv, RunTyped, SameRun
<1>5. QED
  BY <1>1, <1>2, <1>3, <1>4 DEF Outside, Stored

LEMMA StepKeeps == IInv /\ [Next]_vars => IInv'
<1> SUFFICES ASSUME IInv, [Next]_vars PROVE IInv'
  OBVIOUS
<1>1. CASE Tick \/ (\E e \in Events : Arrive(e)) \/ UNCHANGED vars
  BY <1>1, TickOutside, ArriveOutside, StutterOutside, OutsideKeeps
<1>2. ASSUME NEW s \in Slots,
             EnsureState(s) \/ ReadWindow(s) \/ Begin(s) \/ Write(s) \/ UpdateMark(s) \/ Fail(s)
      PROVE  IInv'
  BY <1>2, EnsureStateKeeps, ReadWindowKeeps, BeginKeeps, WriteKeeps, UpdateMarkKeeps, FailKeeps
<1>3. QED
  BY <1>1, <1>2 DEF Next

-----------------------------------------------------------------------------
(* What the marts show after a run that nothing disturbed. *)

\* A row is of the seed, of a session, or an event stands behind it.
IsRow(r) == r = Row(r.mart, r.day, r.key, r.at, r.from, r.beside)
Founded(r) ==
  r \in Seeds \/ r.mart = Sessions \/ \E e \in Stored \cap Valid : Shows(r, r.mart, e)

RowTyped(r) ==
  /\ IsRow(r) /\ r.mart \in Marts /\ r.at \in 0 .. now
  /\ r.from \subseteq Stored /\ r.beside \subseteq Stored
  /\ Founded(r)

\* What a run that read its window now would compute, but for the time.
Expected(m) == RowsAt(m, StartDay, EndDay, 0)

Agrees(r, q) ==
  r.mart = q.mart /\ r.day = q.day /\ r.key = q.key /\ r.from = q.from /\ r.beside = q.beside
Shown(m) == \A q \in Expected(m) : \E r \in rows : Agrees(r, q)

\* While nothing disturbs a run the marts it has filled show that, and what it has
\* computed is not older than any row.
QuietRun(s) ==
  run[s].quiet =>
    /\ run[s].pc # "read"
    /\ run[s].pc \in {"query", "insert"} =>
         /\ run[s].first = StartDay /\ run[s].last = EndDay
         /\ \A i \in 1 .. run[s].next - 1 : Shown(order[i])
    /\ run[s].pc = "insert" =>
         /\ \A q \in Expected(order[run[s].next]) : \E n \in run[s].result : Agrees(n, q)
         /\ \A n \in run[s].result, r \in rows : r.at <= n.at
    /\ run[s].pc \in {"mark", "idle"} => \A m \in Marts : Shown(m)

RunBounds(s) ==
  /\ run[s].quiet \in BOOLEAN
  /\ run[s].next \in DOMAIN order /\ run[s].attempt \in 0 .. Retries
  /\ run[s].pc \in {"query", "insert"} => run[s].first <= run[s].last

TablesTyped == \A r \in rows \cup Results : RowTyped(r)

ShowInv ==
  /\ now \in 0 .. MaxNow /\ fullDaysOnly \in BOOLEAN /\ failures \in 0 .. MaxFailures
  /\ TablesTyped
  /\ \A s \in Slots : RunBounds(s) /\ QuietRun(s)

\* What is expected depends on the events stored and the day only.
LEMMA WindowStays ==
  ASSUME Stored' = Stored, Today' = Today, fullDaysOnly' = fullDaysOnly
  PROVE  StartDay' = StartDay /\ EndDay' = EndDay
<1>1. EndDay' = EndDay
  BY DEF EndDay
<1>2. MinDayPrepared' = MinDayPrepared
  BY DEF MinDayPrepared
<1>3. QED
  BY <1>1, <1>2 DEF StartDay, Larger

LEMMA ExpectedStays ==
  ASSUME Stored' = Stored, StartDay' = StartDay, EndDay' = EndDay, NEW m
  PROVE  Expected(m)' = Expected(m)
  BY DEF Expected, RowsAt, InWindow, Day, SessionDay, Group, Beside, FirstDay

LEMMA Still ==
  ASSUME UNCHANGED <<now, settings, age>>
  PROVE  /\ order' = order /\ Marts' = Marts /\ Stored' = Stored
         /\ StartDay' = StartDay /\ EndDay' = EndDay
         /\ \A m : Expected(m)' = Expected(m)
<1>1. order' = order /\ fullDaysOnly' = fullDaysOnly
  BY DEF settings
<1>2. Marts' = Marts /\ Stored' = Stored /\ Today' = Today
  BY <1>1 DEF Marts, Stored, Today
<1>3. StartDay' = StartDay /\ EndDay' = EndDay
  BY <1>1, <1>2, WindowStays
<1>4. QED
  BY <1>1, <1>2, <1>3, ExpectedStays

LEMMA RowTypedStays ==
  ASSUME NEW r, RowTyped(r), Stored \subseteq Stored', order' = order,
         now \in Nat, now' \in Nat, now <= now'
  PROVE  RowTyped(r)'
<1>1. Marts' = Marts /\ Seeds' = Seeds
  BY DEF Marts, Seeds
<1>2. Founded(r)'
  BY <1>1 DEF RowTyped, Founded, Shows
<1>3. r.at \in 0 .. now'
  BY DEF RowTyped
<1>4. QED
  BY <1>1, <1>2, <1>3 DEF RowTyped, IsRow

LEMMA QueryTyped ==
  ASSUME ClockTyped, NEW m \in Marts, NEW first, NEW last,
         NEW q \in Query(m, first, last)
  PROVE  RowTyped(q)
<1> DEFINE all == InWindow(first, last)
           W == all \cap Valid
<1>1. PICK e \in W : q = Row(m, Day(m, e, W), Key(m, e), now, Group(m, e, W),
                             Beside(m, Day(m, e, W), all))
  BY QueryRows DEF RowsAt
<1>2. /\ q.mart = m /\ q.day = Day(m, e, W) /\ q.key = Key(m, e) /\ q.at = now
      /\ q.from = Group(m, e, W) /\ q.beside = Beside(m, Day(m, e, W), all)
  BY <1>1, RowFields
<1>3. all \subseteq Stored /\ e \in Stored \cap Valid /\ W \subseteq Stored
  BY DEF InWindow
<1> HIDE DEF all, W
<1>4. IsRow(q)
  BY <1>1, <1>2 DEF IsRow
<1>5. q.from \subseteq Stored
  BY <1>2, <1>3 DEF Group
<1>6. q.beside \subseteq Stored
  <2>1. \A day : Beside(m, day, all) \subseteq all
    BY DEF Beside
  <2>2. QED
    BY <1>2, <1>3, <2>1
<1>7. Founded(q)
  <2>1. CASE m = Sessions
    BY <1>2, <2>1 DEF Founded
  <2>2. CASE m # Sessions
    BY <1>2, <1>3, <2>2 DEF Founded, Shows, Day, Sessions
  <2>3. QED
    BY <2>1, <2>2
<1>8. q.at \in 0 .. now
  BY <1>2 DEF ClockTyped
<1>9. QED
  BY <1>2, <1>4, <1>5, <1>6, <1>7, <1>8 DEF RowTyped

\* A query over the window yields what is expected.
LEMMA QueryAgrees ==
  ASSUME NEW m
  PROVE  /\ \A q \in Expected(m) : \E n \in Query(m, StartDay, EndDay) : Agrees(n, q)
         /\ \A n \in Query(m, StartDay, EndDay) : \E q \in Expected(m) : Agrees(n, q)
<1> DEFINE all == InWindow(StartDay, EndDay)
           W == all \cap Valid
           R(e, at) == Row(m, Day(m, e, W), Key(m, e), at, Group(m, e, W),
                           Beside(m, Day(m, e, W), all))
<1>1. /\ Expected(m) = { R(e, 0) : e \in W }
      /\ Query(m, StartDay, EndDay) = { R(e, now) : e \in W }
  BY QueryRows DEF Expected, RowsAt
<1>2. \A e : Agrees(R(e, 0), R(e, now)) /\ Agrees(R(e, now), R(e, 0))
  BY RowFields DEF Agrees
<1> HIDE DEF R, W, all
<1>3. QED
  BY <1>1, <1>2

\* Another run, the data or the calendar ends the quiet of a run.
LEMMA DisturbedQuiet ==
  ASSUME NEW S, NEW t \in Slots, RunTyped(t), RunBounds(t), run'[t] = Disturbed(S)[t],
         order' = order
  PROVE  /\ RunBounds(t)' /\ (t \in S => ~run'[t].quiet)
         /\ run'[t].quiet => run[t].quiet
<1>1. run'[t] = [run[t] EXCEPT !.quiet = @ /\ t \notin S]
  BY DEF Disturbed
<1>2. DOMAIN run[t] = Fields /\ run[t].quiet \in BOOLEAN
  BY DEF RunTyped, RunBounds
<1>3. /\ run'[t].quiet = (run[t].quiet /\ t \notin S)
      /\ run'[t].pc = run[t].pc /\ run'[t].next = run[t].next
      /\ run'[t].attempt = run[t].attempt
      /\ run'[t].first = run[t].first /\ run'[t].last = run[t].last
  BY <1>1, <1>2 DEF Fields
<1>4. run'[t].quiet \in BOOLEAN
  BY <1>3
<1>5. RunBounds(t)'
  BY <1>3, <1>4 DEF RunBounds
<1>6. QED
  BY <1>3, <1>5

\* A step of one run: what is left to show is about that run.
OwnStep(s, r) ==
  /\ Step(s, r)
  /\ UNCHANGED <<now, settings, age>>
  /\ rows' = rows \/ rows' = Replace(rows, run[s].result)
  /\ \A q \in r.result : RowTyped(q)
  /\ failures' \in 0 .. MaxFailures

LEMMA OwnStepShows ==
  ASSUME IInv, ShowInv, NEW s \in Slots, NEW r, OwnStep(s, r), RunBounds(s)', QuietRun(s)'
  PROVE  ShowInv'
<1>1. run'[s] = r /\ \A t \in Slots \ {s} : SameRun(t)
  BY StepRuns DEF OwnStep, IInv
<1>2. order' = order /\ Stored' = Stored /\ now' = now /\ fullDaysOnly' = fullDaysOnly
  BY Still DEF OwnStep, settings
<1>3. ASSUME NEW t \in Slots \ {s} PROVE RunBounds(t)' /\ QuietRun(t)'
  <2>1. run'[t] = Disturbed(Slots \ {s})[t]
    BY DEF OwnStep, Step, Disturbed
  <2>2. RunTyped(t) /\ RunBounds(t)
    BY DEF IInv, ShowInv
  <2>3. RunBounds(t)' /\ ~run'[t].quiet
    BY <1>2, <2>1, <2>2, DisturbedQuiet
  <2>4. QED
    BY <2>3 DEF QuietRun
<1>4. TablesTyped'
  <2>1. rows' \subseteq rows \cup Results
    BY Replaced DEF OwnStep, Results
  <2>2. Results' \subseteq Results \cup r.result
    BY <1>1 DEF Results, SameRun
  <2>3. \A q \in (rows \cup Results)' : RowTyped(q)
    BY <2>1, <2>2 DEF ShowInv, TablesTyped, OwnStep
  <2>4. now \in Nat
    BY DEF IInv, ClockTyped
  <2>5. \A q : RowTyped(q) => RowTyped(q)'
    BY <1>2, <2>4, RowTypedStays
  <2>6. QED
    BY <2>3, <2>5 DEF TablesTyped
<1>5. now' \in 0 .. MaxNow /\ fullDaysOnly' \in BOOLEAN /\ failures' \in 0 .. MaxFailures
  BY <1>2 DEF ShowInv, OwnStep
<1>6. QED
  BY <1>3, <1>4, <1>5 DEF ShowInv

LEMMA FirstMart ==
  ASSUME ClockTyped
  PROVE  DOMAIN order = 1 .. Len(order) /\ Len(order) \in Nat /\ 1 \in DOMAIN order
<1>1. order \in Seq(STRING) /\ order # <<>>
  BY OrdersAssumption DEF ClockTyped
<1>2. QED
  BY <1>1

\* A run that starts, is over or starts again is not quiet.
LEMMA RestartShows ==
  ASSUME IInv, ShowInv, NEW s \in Slots, NEW r, Step(s, r),
         r.quiet = FALSE, r.pc \in {"idle", "read"}, r.next = 1, r.attempt \in 0 .. Retries,
         r.result = {}, UNCHANGED <<now, settings, age>>,
         rows' = rows \/ rows' = Replace(rows, run[s].result),
         failures' \in 0 .. MaxFailures
  PROVE  ShowInv'
<1>1. run'[s] = r
  BY StepRuns DEF IInv
<1>2. order' = order
  BY Still
<1>3. RunBounds(s)'
  BY <1>1, <1>2, FirstMart DEF RunBounds, IInv
<1>4. QuietRun(s)'
  BY <1>1 DEF QuietRun
<1>5. OwnStep(s, r)
  BY DEF OwnStep
<1>6. QED
  BY <1>3, <1>4, <1>5, OwnStepShows

LEMMA EnsureStateShows ==
  ASSUME IInv, ShowInv, NEW s \in Slots, EnsureState(s)
  PROVE  ShowInv'
<1> DEFINE r == [Idle EXCEPT !.pc = "read"]
<1>1. r.quiet = FALSE /\ r.pc = "read" /\ r.next = 1 /\ r.attempt = 0 /\ r.result = {}
  BY DEF Idle
<1> HIDE DEF r
<1>2. Step(s, r) /\ UNCHANGED <<now, settings, age, rows, failures>>
  BY DEF EnsureState, r
<1>3. failures' \in 0 .. MaxFailures /\ 0 \in 0 .. Retries
  BY <1>2, MartsAssumption DEF ShowInv
<1>4. QED
  BY <1>1, <1>2, <1>3, RestartShows

LEMMA FailShows ==
  ASSUME IInv, ShowInv, NEW s \in Slots, Fail(s)
  PROVE  ShowInv'
<1>1. /\ UNCHANGED <<now, settings, age>>
      /\ rows' = rows \/ rows' = Replace(rows, run[s].result)
  BY DEF Fail
<1>2. failures' \in 0 .. MaxFailures
  BY MartsAssumption DEF Fail, ShowInv
<1>3. CASE run[s].attempt < Retries
  <2> DEFINE again == [Idle EXCEPT !.pc = "read"]
             r == [again EXCEPT !.attempt = run[s].attempt + 1]
  <2>1. /\ DOMAIN again = Fields /\ again.quiet = FALSE /\ again.pc = "read"
        /\ again.next = 1 /\ again.result = {}
    BY DEF Idle, Fields
  <2>2. Step(s, [Idle EXCEPT !.pc = "read", !.attempt = run[s].attempt + 1])
    BY <1>3 DEF Fail, Retry
  <2>3. Step(s, r)
    BY <2>2
  <2> HIDE DEF again
  <2>4. /\ r.quiet = FALSE /\ r.pc = "read" /\ r.next = 1 /\ r.result = {}
        /\ r.attempt = run[s].attempt + 1
    BY <2>1 DEF Fields
  <2>5. run[s].attempt + 1 \in 0 .. Retries
    BY <1>3, MartsAssumption DEF ShowInv, RunBounds
  <2> HIDE DEF r
  <2>6. QED
    BY <1>1, <1>2, <2>3, <2>4, <2>5, RestartShows
<1>4. CASE ~(run[s].attempt < Retries)
  <2> DEFINE r == [Idle EXCEPT !.quiet = FALSE]
  <2>1. r.quiet = FALSE /\ r.pc = "idle" /\ r.next = 1 /\ r.attempt = 0 /\ r.result = {}
    BY DEF Idle
  <2>2. Step(s, r)
    BY <1>4 DEF Fail, Retry, Finish
  <2> HIDE DEF r
  <2>3. 0 \in 0 .. Retries
    BY MartsAssumption
  <2>4. QED
    BY <1>1, <1>2, <2>1, <2>2, <2>3, RestartShows
<1>5. QED
  BY <1>3, <1>4

\* A window without days has no valid event: nothing is expected of it.
LEMMA EmptyWindow ==
  ASSUME ClockTyped, StartDay > EndDay, NEW m PROVE Expected(m) = {}
<1>1. StartDay .. EndDay = {}
  BY WindowDays
<1>2. InWindow(StartDay, EndDay) = {}
  BY <1>1 DEF InWindow
<1>3. QED
  BY <1>2 DEF Expected, RowsAt

LEMMA ReadWindowShows ==
  ASSUME IInv, ShowInv, NEW s \in Slots, ReadWindow(s)
  PROVE  ShowInv'
<1> DEFINE r == [pc |-> IF StartDay > EndDay THEN "mark" ELSE "query",
                 upper |-> { e \in UpperTs : e.day \in StartDay .. EndDay },
                 first |-> StartDay, last |-> EndDay, next |-> 1,
                 result |-> {}, attempt |-> run[s].attempt, quiet |-> TRUE]
<1>1. Step(s, r) /\ UNCHANGED <<now, settings, age, rows, failures>>
  BY DEF ReadWindow
<1>2. /\ r.pc = (IF StartDay > EndDay THEN "mark" ELSE "query")
      /\ r.first = StartDay /\ r.last = EndDay /\ r.next = 1
      /\ r.result = {} /\ r.attempt = run[s].attempt /\ r.quiet = TRUE
  OBVIOUS
<1> HIDE DEF r
<1>3. OwnStep(s, r)
  BY <1>1, <1>2 DEF OwnStep, ShowInv
<1>4. /\ run'[s] = r /\ order' = order /\ Marts' = Marts
      /\ StartDay' = StartDay /\ EndDay' = EndDay
      /\ \A m : Expected(m)' = Expected(m)
  BY <1>1, StepRuns, Still DEF IInv
<1>5. RunBounds(s)'
  <2>1. run[s].attempt \in 0 .. Retries
    BY DEF ShowInv, RunBounds
  <2>2. StartDay > EndDay \/ StartDay <= EndDay
    BY WindowDays DEF IInv
  <2>3. QED
    BY <1>2, <1>4, <2>1, <2>2, FirstMart DEF RunBounds, IInv
<1>6. QuietRun(s)'
  <2>1. CASE StartDay > EndDay
    <3>1. \A m : Shown(m)'
      BY <1>4, <2>1, EmptyWindow DEF Shown, IInv
    <3>2. run'[s].pc = "mark"
      BY <1>2, <1>4, <2>1
    <3>3. QED
      BY <3>1, <3>2 DEF QuietRun
  <2>2. CASE ~(StartDay > EndDay)
    <3>1. run'[s].pc = "query" /\ 1 .. run'[s].next - 1 = {}
      BY <1>2, <1>4, <2>2
    <3>2. QED
      BY <1>2, <1>4, <3>1 DEF QuietRun
  <2>3. QED
    BY <2>1, <2>2
<1>7. QED
  BY <1>3, <1>5, <1>6, OwnStepShows

LEMMA BeginShows ==
  ASSUME IInv, ShowInv, NEW s \in Slots, Begin(s)
  PROVE  ShowInv'
<1> DEFINE m == order[run[s].next]
           R == Query(m, run[s].first, run[s].last)
           begun == [run[s] EXCEPT !.pc = "insert"]
           r == [begun EXCEPT !.result = R]
<1>1. /\ run[s].pc = "query" /\ Step(s, r)
      /\ UNCHANGED <<now, settings, age, rows, failures>>
  BY DEF Begin
<1>2. m \in Marts
  BY DEF Marts, ShowInv, RunBounds
<1>3. \A q \in R : RowTyped(q) /\ q.at = now
  BY <1>2, QueryTyped, QueryFresh DEF IInv, FreshRows
<1>4. run[s].quiet => \A q \in Expected(m) : \E n \in R : Agrees(n, q)
  BY <1>1, QueryAgrees DEF ShowInv, QuietRun
<1> HIDE DEF R
<1>5. /\ r.pc = "insert" /\ r.result = R /\ r.next = run[s].next
      /\ r.first = run[s].first /\ r.last = run[s].last
      /\ r.attempt = run[s].attempt /\ r.quiet = run[s].quiet
  <2>1. DOMAIN run[s] = Fields
    BY DEF IInv, RunTyped
  <2>2. /\ DOMAIN begun = Fields /\ begun.pc = "insert" /\ begun.next = run[s].next
        /\ begun.first = run[s].first /\ begun.last = run[s].last
        /\ begun.attempt = run[s].attempt /\ begun.quiet = run[s].quiet
    BY <2>1 DEF Fields
  <2> HIDE DEF begun
  <2>3. QED
    BY <2>2 DEF Fields
<1> HIDE DEF r
<1>6. OwnStep(s, r)
  BY <1>1, <1>3, <1>5 DEF OwnStep, ShowInv
<1>7. /\ run'[s] = r /\ order' = order
      /\ StartDay' = StartDay /\ EndDay' = EndDay
      /\ \A n : Expected(n)' = Expected(n)
  BY <1>1, StepRuns, Still DEF IInv
<1>8. RunBounds(s)'
  BY <1>1, <1>5, <1>7 DEF RunBounds, ShowInv
<1>9. ASSUME run[s].quiet PROVE QuietRun(s)'
  <2>1. /\ run[s].first = StartDay /\ run[s].last = EndDay
        /\ \A i \in 1 .. run[s].next - 1 : Shown(order[i])
    BY <1>1, <1>9 DEF ShowInv, QuietRun
  <2>2. \A i \in 1 .. run'[s].next - 1 : Shown(order[i])'
    BY <1>1, <1>5, <1>7, <2>1 DEF Shown
  <2>3. \A q \in Expected(order[run[s].next])' : \E n \in run'[s].result : Agrees(n, q)
    BY <1>4, <1>5, <1>7, <1>9
  <2>4. \A n \in run'[s].result, x \in rows' : x.at <= n.at
    BY <1>1, <1>3, <1>5, <1>7 DEF ShowInv, TablesTyped, RowTyped
  <2>5. run'[s].pc = "insert" /\ run'[s].next = run[s].next
    BY <1>5, <1>7
  <2>6. QED
    BY <1>5, <1>7, <2>1, <2>2, <2>3, <2>4, <2>5 DEF QuietRun, Agrees
<1>10. ~run[s].quiet => QuietRun(s)'
  BY <1>5, <1>7 DEF QuietRun
<1>11. QED
  BY <1>6, <1>8, <1>9, <1>10, OwnStepShows

LEMMA UpdateMarkShows ==
  ASSUME IInv, ShowInv, NEW s \in Slots, UpdateMark(s)
  PROVE  ShowInv'
<1> DEFINE r == [Idle EXCEPT !.quiet = run[s].quiet]
<1>1. /\ run[s].pc = "mark" /\ Step(s, r)
      /\ UNCHANGED <<now, settings, age, rows, failures>>
  BY DEF UpdateMark, Finish
<1>2. /\ r.quiet = run[s].quiet /\ r.pc = "idle" /\ r.next = 1 /\ r.attempt = 0
      /\ r.result = {}
  BY DEF Idle
<1> HIDE DEF r
<1>3. OwnStep(s, r)
  BY <1>1, <1>2 DEF OwnStep, ShowInv
<1>4. /\ run'[s] = r /\ order' = order /\ Marts' = Marts
      /\ \A m : Expected(m)' = Expected(m)
  BY <1>1, StepRuns, Still DEF IInv
<1>5. RunBounds(s)'
  BY <1>2, <1>4, FirstMart, MartsAssumption DEF RunBounds, ShowInv, IInv
<1>6. QuietRun(s)'
  <2>1. run[s].quiet => \A m \in Marts : Shown(m)
    BY <1>1 DEF ShowInv, QuietRun
  <2>2. run[s].quiet => \A m \in Marts' : Shown(m)'
    BY <1>1, <1>4, <2>1 DEF Shown
  <2>3. run'[s].pc = "idle" /\ run'[s].quiet = run[s].quiet
    BY <1>2, <1>4
  <2>4. QED
    BY <2>2, <2>3 DEF QuietRun
<1>7. QED
  BY <1>3, <1>5, <1>6, OwnStepShows

\* What a quiet run writes replaces every row of its keys.
LEMMA WrittenShown ==
  ASSUME IInv, NEW s \in Slots, rows' = Replace(rows, run[s].result),
         UNCHANGED <<now, settings, age>>,
         NEW m, Shown(m) \/ m = order[run[s].next],
         \A q \in Expected(order[run[s].next]) : \E n \in run[s].result : Agrees(n, q),
         \A n \in run[s].result, x \in rows : x.at <= n.at,
         \A n \in run[s].result : n.mart = order[run[s].next]
  PROVE  Shown(m)'
<1> DEFINE R == run[s].result
<1>1. \A n \in R : n \in rows'
  BY Replaced
<1>2. Expected(m)' = Expected(m)
  BY Still
<1>3. ASSUME NEW q \in Expected(m) PROVE \E x \in rows' : Agrees(x, q)
  <2>1. CASE m = order[run[s].next]
    BY <1>1, <2>1
  <2>2. CASE m # order[run[s].next]
    <3>1. PICK x \in rows : Agrees(x, q)
      BY <2>2 DEF Shown
    <3>2. q.mart = m
      BY OneRow DEF Expected
    <3>3. \A n \in R : ~SameKey(x, n)
      BY <2>2, <3>1, <3>2 DEF SameKey, Agrees
    <3>4. x \in rows'
      BY <3>3, Replaced
    <3>5. QED
      BY <3>1, <3>4
  <2>3. QED
    BY <2>1, <2>2
<1>4. QED
  BY <1>2, <1>3 DEF Shown, Agrees

LEMMA WriteShows ==
  ASSUME IInv, ShowInv, NEW s \in Slots, Write(s)
  PROVE  ShowInv'
<1> DEFINE last == run[s].next = Len(order)
           moved == [run[s] EXCEPT !.pc = IF last THEN "mark" ELSE "query"]
           counted == [moved EXCEPT !.next = IF last THEN 1 ELSE run[s].next + 1]
           r == [counted EXCEPT !.result = {}]
<1>1. /\ run[s].pc = "insert" /\ rows' = Replace(rows, run[s].result)
      /\ Step(s, r) /\ UNCHANGED <<now, settings, age, failures>>
  BY DEF Write, AfterInsert
<1>2. DOMAIN run[s] = Fields
  BY DEF IInv, RunTyped
<1>3. /\ r.pc = (IF last THEN "mark" ELSE "query")
      /\ r.next = (IF last THEN 1 ELSE run[s].next + 1)
      /\ r.result = {} /\ r.first = run[s].first /\ r.last = run[s].last
      /\ r.attempt = run[s].attempt /\ r.quiet = run[s].quiet
  <2>1. /\ DOMAIN moved = Fields /\ moved.pc = (IF last THEN "mark" ELSE "query")
        /\ moved.first = run[s].first /\ moved.last = run[s].last
        /\ moved.attempt = run[s].attempt /\ moved.quiet = run[s].quiet
    BY <1>2 DEF Fields
  <2> HIDE DEF moved
  <2>2. /\ DOMAIN counted = Fields /\ counted.pc = moved.pc
        /\ counted.next = (IF last THEN 1 ELSE run[s].next + 1)
        /\ counted.first = moved.first /\ counted.last = moved.last
        /\ counted.attempt = moved.attempt /\ counted.quiet = moved.quiet
    BY <2>1 DEF Fields
  <2> HIDE DEF counted
  <2>3. QED
    BY <2>1, <2>2 DEF Fields
<1> HIDE DEF r
<1>4. OwnStep(s, r)
  BY <1>1, <1>3 DEF OwnStep, ShowInv
<1>5. /\ run'[s] = r /\ order' = order /\ Marts' = Marts
      /\ StartDay' = StartDay /\ EndDay' = EndDay
  BY <1>1, StepRuns, Still DEF IInv
<1>6. /\ DOMAIN order = 1 .. Len(order) /\ Len(order) \in Nat /\ 1 \in DOMAIN order
      /\ run[s].next \in Nat \ {0} /\ run[s].next <= Len(order)
  BY FirstMart DEF IInv, ShowInv, RunBounds
<1>7. RunBounds(s)'
  <2>1. (IF last THEN 1 ELSE run[s].next + 1) \in DOMAIN order
    BY <1>6
  <2>2. run[s].quiet \in BOOLEAN /\ run[s].attempt \in 0 .. Retries
        /\ run[s].first <= run[s].last
    BY <1>1 DEF ShowInv, RunBounds
  <2>3. QED
    BY <1>3, <1>5, <2>1, <2>2 DEF RunBounds
<1>8. ASSUME run[s].quiet PROVE QuietRun(s)'
  <2>1. /\ run[s].first = StartDay /\ run[s].last = EndDay
        /\ \A i \in 1 .. run[s].next - 1 : Shown(order[i])
        /\ \A q \in Expected(order[run[s].next]) : \E n \in run[s].result : Agrees(n, q)
        /\ \A n \in run[s].result, x \in rows : x.at <= n.at
    BY <1>1, <1>8 DEF ShowInv, QuietRun
  <2>2. \A n \in run[s].result : n.mart = order[run[s].next]
    BY DEF IInv, RunTyped
  <2>3. \A m : Shown(m) \/ m = order[run[s].next] => Shown(m)'
    BY <1>1, <2>1, <2>2, WrittenShown
  <2>4. \A i \in 1 .. run[s].next : i \in 1 .. run[s].next - 1 \/ i = run[s].next
    BY <1>6
  <2>5. \A i \in 1 .. run[s].next : Shown(order[i])'
    <3>1. TAKE i \in 1 .. run[s].next
    <3> DEFINE m == order[i]
    <3>2. Shown(m) \/ m = order[run[s].next]
      BY <2>1, <2>4
    <3>3. m' = m
      BY <1>5
    <3> HIDE DEF m
    <3>4. PICK n : n = m
      OBVIOUS
    <3>5. Shown(n)'
      BY <2>3, <3>2, <3>4
    <3>6. QED
      BY <1>5, <3>5, <3>4, <3>3 DEF m
  <2>6. CASE last
    <3>1. \A m \in Marts : \E i \in 1 .. run[s].next : m = order[i]
      BY <1>6, <2>6 DEF Marts
    <3>2. \A m \in Marts' : Shown(m)'
      BY <1>5, <2>5, <3>1
    <3>3. run'[s].pc = "mark"
      BY <1>3, <1>5, <2>6
    <3>4. QED
      BY <3>2, <3>3 DEF QuietRun
  <2>7. CASE ~last
    <3>1. run'[s].pc = "query" /\ run'[s].next - 1 = run[s].next
      BY <1>3, <1>5, <1>6, <2>7
    <3>2. \A i \in 1 .. run'[s].next - 1 : Shown(order[i])'
      BY <2>5, <3>1
    <3>3. run'[s].first = StartDay' /\ run'[s].last = EndDay'
      BY <1>3, <1>5, <2>1
    <3>4. QED
      BY <1>5, <3>1, <3>2, <3>3 DEF QuietRun
  <2>8. QED
    BY <2>6, <2>7
<1>9. ~run[s].quiet => QuietRun(s)'
  BY <1>3, <1>5 DEF QuietRun
<1>10. QED
  BY <1>4, <1>7, <1>8, <1>9, OwnStepShows

\* Time passes or an event is stored: a run stays quiet only within its day.
LEMMA OutsideShows ==
  ASSUME IInv, ShowInv, Outside, now' \in 0 .. MaxNow, UNCHANGED <<settings, failures>>,
         \A s \in Slots : RunBounds(s)' /\ QuietRun(s)'
  PROVE  ShowInv'
<1>1. Stored \subseteq Stored' /\ Results' = Results
  BY DEF Outside, SameRun, Stored, Results
<1>2. now \in Nat /\ now' \in Nat /\ now <= now'
  BY DEF IInv, ClockTyped, Outside
<1>3. \A r \in (rows \cup Results)' : RowTyped(r)
  BY <1>1 DEF ShowInv, TablesTyped, Outside
<1>4. \A r : RowTyped(r) => RowTyped(r)'
  BY <1>1, <1>2, RowTypedStays DEF Outside
<1>5. TablesTyped'
  BY <1>3, <1>4 DEF TablesTyped
<1>6. QED
  BY <1>5 DEF ShowInv, settings

LEMMA SameDayShows ==
  ASSUME IInv, ShowInv, run' = run, UNCHANGED <<settings, rows>>,
         Stored' = Stored, Today' = Today, NEW s \in Slots
  PROVE  RunBounds(s)' /\ QuietRun(s)'
<1>1. order' = order /\ fullDaysOnly' = fullDaysOnly /\ Marts' = Marts
  BY DEF settings, Marts
<1>2. StartDay' = StartDay /\ EndDay' = EndDay
  BY <1>1, WindowStays
<1>3. \A m : Expected(m)' = Expected(m)
  BY <1>2, ExpectedStays
<1>4. \A m : Shown(m) => Shown(m)'
  BY <1>3 DEF Shown
<1>5. RunBounds(s)'
  BY <1>1 DEF ShowInv, RunBounds
<1>6. QuietRun(s)'
  BY <1>1, <1>2, <1>3 DEF ShowInv, QuietRun, Shown, Agrees
<1>7. QED
  BY <1>5, <1>6

LEMMA AllDisturbed ==
  ASSUME IInv, ShowInv, run' = Disturbed(Slots), order' = order, NEW s \in Slots
  PROVE  RunBounds(s)' /\ QuietRun(s)'
<1>1. RunTyped(s) /\ RunBounds(s) /\ run'[s] = Disturbed(Slots)[s]
  BY DEF IInv, ShowInv
<1>2. RunBounds(s)' /\ ~run'[s].quiet
  BY <1>1, DisturbedQuiet
<1>3. QED
  BY <1>2 DEF QuietRun

LEMMA ShowsInitially == Init => ShowInv
<1> SUFFICES ASSUME Init PROVE ShowInv
  OBVIOUS
<1>1. IInv /\ \A s \in Slots : run[s] = Idle
  BY Initially DEF Init
<1>2. Results = {} /\ rows = Seeds
  BY <1>1, IdleFields DEF Results, Init
<1>3. ASSUME NEW r \in Seeds PROVE RowTyped(r)
  <2>1. PICK m \in Marts :
          r = [mart |-> m, day |-> 0, key |-> IF m \in Keyed THEN "seed" ELSE "",
               at |-> 0, from |-> {}, beside |-> {}]
    BY DEF Seeds
  <2> DEFINE k == IF m \in Keyed THEN "seed" ELSE ""
  <2>2. r = Row(m, 0, k, 0, {}, {})
    BY <2>1 DEF Row
  <2> HIDE DEF k
  <2>3. r.mart = m /\ r.day = 0 /\ r.key = k /\ r.at = 0 /\ r.from = {} /\ r.beside = {}
    BY <2>2, RowFields
  <2>4. QED
    BY <1>1, <1>3, <2>2, <2>3 DEF RowTyped, IsRow, Founded, IInv, ClockTyped
<1>4. \A s \in Slots : RunBounds(s)
  <2>1. Idle.quiet = FALSE /\ Idle.pc = "idle" /\ Idle.next = 1 /\ Idle.attempt = 0
    BY DEF Idle
  <2>2. 1 \in DOMAIN order /\ 0 \in 0 .. Retries
    BY <1>1, FirstMart, MartsAssumption DEF IInv
  <2>3. QED
    BY <1>1, <2>1, <2>2 DEF RunBounds
<1>5. \A s \in Slots : QuietRun(s)
  BY <1>1 DEF QuietRun, Idle
<1>6. QED
  BY <1>2, <1>3, <1>4, <1>5, MartsAssumption DEF ShowInv, TablesTyped, Init

LEMMA StepShows == IInv /\ ShowInv /\ [Next]_vars => ShowInv'
<1> SUFFICES ASSUME IInv, ShowInv, [Next]_vars PROVE ShowInv'
  OBVIOUS
<1>1. CASE Tick
  <2>1. Outside /\ now' \in 0 .. MaxNow /\ UNCHANGED <<settings, rows, failures>>
    BY <1>1, TickOutside, MartsAssumption DEF Tick, ShowInv
  <2>2. CASE run' = Disturbed(Slots)
    BY <2>1, <2>2, AllDisturbed, OutsideShows DEF Outside
  <2>3. CASE run' = run /\ Today' = Today
    <3>1. Stored' = Stored
      <4>1. /\ age' = [e \in Events |-> IF age[e] \in {Absent, SafetyDelay} THEN age[e]
                                        ELSE age[e] + 1]
            /\ age \in [Events -> {Absent} \cup 0 .. SafetyDelay]
        BY <1>1 DEF Tick, IInv, ClockTyped
      <4>2. \A e \in Events : age'[e] = Absent <=> age[e] = Absent
        BY <4>1, MartsAssumption DEF Absent
      <4>3. QED
        BY <4>2 DEF Stored
    <3>2. QED
      BY <2>1, <2>3, <3>1, SameDayShows, OutsideShows
  <2>4. run' = Disturbed(Slots) \/ (run' = run /\ Today' = Today)
    BY <1>1 DEF Tick, Today
  <2>5. QED
    BY <2>2, <2>3, <2>4
<1>2. ASSUME NEW e \in Events, Arrive(e) PROVE ShowInv'
  <2>1. Outside /\ run' = Disturbed(Slots) /\ UNCHANGED <<now, settings, rows, failures>>
    BY <1>2, ArriveOutside DEF Arrive
  <2>2. QED
    BY <2>1, AllDisturbed, OutsideShows DEF Outside, ShowInv
<1>3. CASE UNCHANGED vars
  <2>1. Outside /\ run' = run /\ UNCHANGED <<now, settings, age, rows, failures>>
    BY <1>3, StutterOutside DEF vars
  <2>2. Stored' = Stored /\ Today' = Today
    BY <2>1 DEF Stored, Today
  <2>3. QED
    BY <2>1, <2>2, SameDayShows, OutsideShows DEF ShowInv
<1>4. ASSUME NEW s \in Slots,
             EnsureState(s) \/ ReadWindow(s) \/ Begin(s) \/ Write(s) \/ UpdateMark(s) \/ Fail(s)
      PROVE  ShowInv'
  BY <1>4, EnsureStateShows, ReadWindowShows, BeginShows, WriteShows, UpdateMarkShows, FailShows
<1>5. QED
  BY <1>1, <1>2, <1>3, <1>4 DEF Next

-----------------------------------------------------------------------------
(* The theorems. *)

\* The invariant holds in every state of the marts and of the runs that fill them.
THEOREM Inductive == Spec => []IInv
  BY Initially, StepKeeps, PTL DEF Spec

\* An event that the watermark promises is counted in each mart, whatever overlaps
\* or fails.
THEOREM PromiseKept == Spec => []MarkCovers
<1>1. IInv => MarkCovers
  <2> SUFFICES ASSUME IInv, NEW e \in mark \cap Valid, NEW m \in Marts \ {Sessions}
               PROVE  \E r \in rows : r.mart = m /\ r.day = e.day /\ r.key = Key(m, e)
                                      /\ e \in r.from
    BY DEF MarkCovers, Sessions
  <2>1. Firm(e, m)
    BY DEF IInv
  <2>2. QED
    BY <2>1 DEF Firm, Shows
<1>2. QED
  BY <1>1, Inductive, PTL

\* An event that a row shows it goes on showing, but within one second.
Forward ==
  \A r \in rows, q \in rows' :
    SameKey(r, q) /\ r.mart # Sessions => r.from \subseteq q.from \/ r.at = q.at

\* No slow run brings older numbers back.
THEOREM NothingForgotten == Spec => NeverBack
<1>1. IInv /\ [Next]_vars => Forward
  <2> SUFFICES ASSUME IInv, [Next]_vars, NEW r \in rows, NEW q \in rows',
                      SameKey(r, q), r.mart # Sessions
               PROVE  r.from \subseteq q.from \/ r.at = q.at
    BY DEF Forward
  <2>1. CASE q \in rows
    BY <2>1 DEF IInv, RowsInv, Unique
  <2>2. ASSUME NEW s \in Slots, q \in run[s].result, q \notin rows,
               rows' = Replace(rows, run[s].result)
        PROVE  r.from \subseteq q.from \/ r.at = q.at
    <3>1. q \in Results
      BY <2>2 DEF Results
    <3>2. r.at \in Nat /\ q.at \in Nat /\ Ordered(r, q)
      BY <3>1 DEF IInv, RowsInv, RowOk
    <3>3. r.at <= q.at
      BY <2>2, Replaced
    <3>4. QED
      BY <3>2, <3>3 DEF Ordered
  <2>3. rows' = rows \/ \E s \in Slots : rows' = Replace(rows, run[s].result)
    BY DEF Next, Tick, Arrive, EnsureState, ReadWindow, Begin, Write, UpdateMark, Fail, vars
  <2>4. ASSUME NEW s \in Slots, rows' = Replace(rows, run[s].result)
        PROVE  q \in rows \/ q \in run[s].result
    BY <2>4, Replaced
  <2>5. QED
    BY <2>1, <2>2, <2>3, <2>4
<1>2. Spec => [][Forward]_vars
  BY <1>1, Inductive, PTL DEF Spec
<1>3. QED
  BY <1>2, PTL DEF NeverBack, Forward, Sessions

LEMMA ShowInvariant == Spec => [](IInv /\ ShowInv)
<1>1. Init => IInv /\ ShowInv
  BY Initially, ShowsInitially
<1>2. IInv /\ ShowInv /\ [Next]_vars => (IInv /\ ShowInv)'
  BY StepKeeps, StepShows
<1>3. QED
  BY <1>1, <1>2, PTL DEF Spec

\* Each mart has one row for a key, of stored events, sessions included.
THEOREM TypeCorrect == Spec => []TypeOK
<1>1. IInv /\ ShowInv => TypeOK
  <2> SUFFICES ASSUME IInv, ShowInv PROVE TypeOK
    OBVIOUS
  <2>1. now \in 0 .. MaxNow /\ fullDaysOnly \in BOOLEAN /\ failures \in 0 .. MaxFailures
    BY DEF ShowInv
  <2>2. /\ order \in MartOrders /\ mark \subseteq Stored
        /\ age \in [Events -> {Absent} \cup 0 .. SafetyDelay]
    BY DEF IInv, ClockTyped
  <2>3. \A r \in rows : /\ r.mart \in Marts /\ r.at \in 0 .. now
                        /\ r.from \subseteq Stored /\ r.beside \subseteq Stored
    BY DEF ShowInv, TablesTyped, RowTyped
  <2>4. \A r, q \in rows : SameKey(r, q) => q = r
    BY DEF IInv, RowsInv, Unique
  <2>5. \A s \in Slots :
          /\ run[s].pc \in {"idle", "read", "query", "insert", "mark"}
          /\ run[s].next \in DOMAIN order /\ run[s].attempt \in 0 .. Retries
          /\ run[s].pc \in {"query", "insert"} => run[s].first <= run[s].last
    BY DEF IInv, RunTyped, ShowInv, RunBounds
  <2>6. QED
    BY <2>1, <2>2, <2>3, <2>4, <2>5 DEF TypeOK
<1>2. QED
  BY <1>1, ShowInvariant, PTL

\* The window of the property is that of a run: the days it has besides hold no
\* valid event.
LEMMA WindowsAgree ==
  ASSUME ClockTyped, NEW m
  PROVE  LET computed == Query(m, EndDay - BackfillDays + 1, EndDay)
         IN  /\ \A q \in computed : \E x \in Expected(m) : Agrees(x, q)
             /\ \A q \in computed : q = Row(q.mart, q.day, q.key, now, q.from, q.beside)
<1> DEFINE first == EndDay - BackfillDays + 1
           wide == InWindow(first, EndDay)
           all == InWindow(StartDay, EndDay)
           W == all \cap Valid
           R(e, at, seen) == Row(m, Day(m, e, W), Key(m, e), at, Group(m, e, W),
                                 Beside(m, Day(m, e, W), seen))
<1>1. /\ StartDay \in Int /\ EndDay \in Int /\ first \in Int /\ first <= StartDay
      /\ StartDay = first \/ StartDay = MinDayPrepared
  <2>1. EndDay \in Int /\ StartDay \in Int /\ MinDayPrepared \in Int
    BY WindowDays
  <2>2. StartDay = Larger(first, MinDayPrepared)
    BY <2>1, MartsAssumption DEF StartDay
  <2>3. QED
    BY <2>1, <2>2, MartsAssumption DEF Larger
<1>2. ASSUME NEW e \in Stored \cap Valid, e.day >= first PROVE e.day >= StartDay
  <2>1. e.day \in Nat
    BY EventsAssumption DEF Valid, Events
  <2>2. CASE StartDay = first
    BY <1>2, <2>2
  <2>3. CASE StartDay = MinDayPrepared
    <3>1. MinDayPrepared = Least({ f.day : f \in Stored \cap Valid })
      BY DEF MinDayPrepared
    <3>2. { f.day : f \in Stored \cap Valid } \subseteq Nat
      BY EventsAssumption DEF Valid, Events
    <3>3. e.day \in { f.day : f \in Stored \cap Valid }
      OBVIOUS
    <3>4. MinDayPrepared <= e.day
      BY <3>1, <3>2, <3>3, LeastOf
    <3>5. QED
      BY <2>3, <3>4, <2>1, <1>1
  <2>4. QED
    BY <1>1, <2>2, <2>3
<1>3. \A e \in Events : e.day \in Nat
  BY EventsAssumption DEF Events
<1>4. wide \cap Valid = W
  <2>1. ASSUME NEW e \in wide \cap Valid PROVE e \in W
    <3>1. e \in Stored \cap Valid /\ e.day \in first .. EndDay /\ e.day \in Nat
      BY <1>3 DEF InWindow, Stored
    <3>2. e.day >= first /\ e.day <= EndDay
      BY <1>1, <3>1
    <3>3. e.day >= StartDay
      BY <1>2, <3>1, <3>2
    <3>4. QED
      BY <1>1, <3>1, <3>2, <3>3 DEF InWindow
  <2>2. ASSUME NEW e \in W PROVE e \in wide \cap Valid
    BY <1>1, <1>3 DEF InWindow, Stored
  <2>3. QED
    BY <2>1, <2>2
<1>5. ASSUME NEW e \in W PROVE Day(m, e, W) \in StartDay .. EndDay
  <2>1. \A f \in W : f.day \in StartDay .. EndDay /\ f.day \in Nat
    BY <1>3 DEF InWindow, Stored
  <2> DEFINE days == { f.day : f \in { g \in W : g.session_id = e.session_id } }
  <2>2. days \subseteq Nat /\ days # {} /\ days \subseteq StartDay .. EndDay
    BY <2>1
  <2> HIDE DEF days, W
  <2>3. Least(days) \in StartDay .. EndDay
    BY <2>2, LeastOf
  <2>4. SessionDay(e, W) = Least(days)
    BY DEF SessionDay, days
  <2>5. QED
    BY <2>1, <2>3, <2>4 DEF Day
<1>6. ASSUME NEW day \in StartDay .. EndDay PROVE Beside(m, day, wide) = Beside(m, day, all)
  <2>1. \A e \in Events : e.day = day => (e \in wide <=> e \in all)
    BY <1>1, <1>3 DEF InWindow, Stored
  <2>2. wide \subseteq Events /\ all \subseteq Events
    BY DEF InWindow, Stored
  <2> HIDE DEF wide, all
  <2>3. { e \in wide \ Valid : e.day = day } = { e \in all \ Valid : e.day = day }
    BY <2>1, <2>2
  <2>4. { e \in wide \cap Valid : e.day = day } = { e \in all \cap Valid : e.day = day }
    BY <2>1, <2>2
  <2>5. { e \in wide \cap Valid : e.day = day /\ FirstDay(e.user_id) = day }
          = { e \in all \cap Valid : e.day = day /\ FirstDay(e.user_id) = day }
    BY <2>1, <2>2
  <2>6. QED
    BY <2>3, <2>4, <2>5 DEF Beside
<1>7. /\ Expected(m) = { R(e, 0, all) : e \in W }
      /\ Query(m, first, EndDay) = { R(e, now, wide) : e \in W }
  BY <1>4, QueryRows DEF Expected, RowsAt
<1>8. ASSUME NEW e \in W PROVE Agrees(R(e, 0, all), R(e, now, wide))
  <2>1. Beside(m, Day(m, e, W), wide) = Beside(m, Day(m, e, W), all)
    BY <1>5, <1>6
  <2> DEFINE x == R(e, 0, all)
             q == R(e, now, wide)
  <2>2. /\ x.mart = q.mart /\ x.day = q.day /\ x.key = q.key /\ x.from = q.from
        /\ x.beside = Beside(m, Day(m, e, W), all)
        /\ q.beside = Beside(m, Day(m, e, W), wide)
    BY RowFields
  <2> HIDE DEF x, q, W, wide, all
  <2>3. Agrees(x, q)
    BY <2>1, <2>2 DEF Agrees
  <2>4. QED
    BY <2>3 DEF x, q
<1>9. \A e : LET q == R(e, now, wide)
             IN  q = Row(q.mart, q.day, q.key, now, q.from, q.beside)
  BY RowFields
<1> HIDE DEF R, W
<1>10. QED
  BY <1>7, <1>8, <1>9

LEMMA AtAnotherTime ==
  ASSUME NEW r, NEW q, NEW at, IsRow(r), Agrees(r, q),
         q = Row(q.mart, q.day, q.key, at, q.from, q.beside)
  PROVE  [r EXCEPT !.at = at] = q
<1> DEFINE S == [mart : {r.mart}, day : {r.day}, key : {r.key}, at : {r.at, at},
                 from : {r.from}, beside : {r.beside}]
           x == [r EXCEPT !.at = at]
<1>1. Row(r.mart, r.day, r.key, r.at, r.from, r.beside) \in S
  BY DEF Row
<1>2. r \in S
  BY <1>1 DEF IsRow
<1>3. /\ x \in S /\ x.at = at /\ x.mart = r.mart /\ x.day = r.day /\ x.key = r.key
      /\ x.from = r.from /\ x.beside = r.beside
  BY <1>2
<1> HIDE DEF x
<1>4. x = Row(x.mart, x.day, x.key, x.at, x.from, x.beside)
  BY <1>3 DEF Row
<1>5. x = q
  BY <1>3, <1>4 DEF Agrees
<1>6. QED
  BY <1>5 DEF x

\* After a run that nothing disturbed the marts show what is stored of the last
\* BackfillDays days.
THEOREM QuietRunShows == Spec => []QuietRunAgrees
<1>1. IInv /\ ShowInv => QuietRunAgrees
  <2> SUFFICES ASSUME IInv, ShowInv, NEW s \in Slots, run[s].pc = "idle", run[s].quiet,
                      NEW m \in Marts
               PROVE  LET computed == Query(m, EndDay - BackfillDays + 1, EndDay)
                      IN  /\ \A q \in computed : \E r \in rows : [r EXCEPT !.at = now] = q
                          /\ \A r \in rows :
                               r.mart = m /\ r.day \in Window
                               /\ (\A q \in computed : ~SameKey(r, q)) =>
                                 r \in Seeds \/ m = "session_quality_daily"
    BY DEF QuietRunAgrees
  <2> DEFINE first == EndDay - BackfillDays + 1
             computed == Query(m, first, EndDay)
  <2>1. Shown(m)
    BY DEF ShowInv, QuietRun
  <2>2. ASSUME NEW q \in computed PROVE \E r \in rows : [r EXCEPT !.at = now] = q
    <3>1. PICK x \in Expected(m) : Agrees(x, q)
      BY <2>2, WindowsAgree DEF IInv
    <3>2. PICK r \in rows : Agrees(r, x)
      BY <2>1 DEF Shown
    <3>3. q = Row(q.mart, q.day, q.key, now, q.from, q.beside)
      BY <2>2, WindowsAgree DEF IInv
    <3>4. IsRow(r) /\ Agrees(r, q)
      BY <3>1, <3>2 DEF ShowInv, TablesTyped, RowTyped, Agrees
    <3>5. QED
      BY <3>3, <3>4, AtAnotherTime
  <2>3. ASSUME m # Sessions, NEW e \in Stored \cap Valid, e.day \in first .. EndDay
        PROVE  \E q \in computed : Shows(q, m, e)
    <3> HIDE DEF first
    <3>1. \A g \in Stored \cap Valid : g.day \in first .. EndDay =>
            \E q \in Query(m, first, EndDay) : Shows(q, m, g) /\ g \in q.from
      BY <2>3, Queried
    <3>2. QED
      BY <2>3, <3>1
  <2>4. ASSUME NEW r \in rows, r.mart = m, r.day \in Window,
               \A q \in computed : ~SameKey(r, q), m # Sessions, r \notin Seeds
        PROVE  FALSE
    <3>1. PICK e \in Stored \cap Valid : Shows(r, m, e)
      BY <2>4 DEF ShowInv, TablesTyped, RowTyped, Founded
    <3>2. e.day \in first .. EndDay
      BY <2>4, <3>1 DEF Shows, Window
    <3>3. PICK q \in computed : Shows(q, m, e)
      BY <2>3, <2>4, <3>1, <3>2
    <3>4. SameKey(r, q)
      BY <3>1, <3>3 DEF Shows, SameKey
    <3>5. QED
      BY <2>4, <3>4
  <2> HIDE DEF computed
  <2>5. QED
    BY <2>2, <2>4 DEF computed, Sessions
<1>2. QED
  BY <1>1, ShowInvariant, PTL
=============================================================================
