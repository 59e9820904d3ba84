------------------------- MODULE Validation_proofs -------------------------
(***************************************************************************)
(* Whatever is sent, on whatever path: the two views divide raw_events,    *)
(* each of its rows comes from an event that was read (VInv says which),   *)
(* a response tells what became of its batch, what the API accepted lacks  *)
(* a user_id at most, and the rows of an event of the generator differ in  *)
(* payload and device_id at most, whatever the path.                       *)
(***************************************************************************)
EXTENDS Validation, FiniteSetTheorems, SequenceTheorems, WellFoundedInduction, TLAPS

\* The views leave what they would make of all rows of raw_events at once: an
\* insert adds to each table exactly its share of the new rows.
ViewsUpToDate == valid = ToValid(raw) /\ invalid = ToInvalid(raw)

LEMMA ViewsInitially == Init => ViewsUpToDate
  BY DEF Init, ViewsUpToDate, ToValid, ToInvalid

\* The conditions look at one row at a time.
LEMMA ViewsAdd ==
  ASSUME NEW old, NEW rows
  PROVE  /\ ToValid(old \cup rows) = ToValid(old) \cup ToValid(rows)
         /\ ToInvalid(old \cup rows) = ToInvalid(old) \cup ToInvalid(rows)
<1>1. ToValid(old \cup rows) = ToValid(old) \cup ToValid(rows)
  BY DEF ToValid
<1>2. ToInvalid(old \cup rows) = ToInvalid(old) \cup ToInvalid(rows)
  BY DEF ToInvalid
<1>3. QED
  BY <1>1, <1>2

LEMMA InsertKeepsViews ==
  ASSUME ViewsUpToDate, NEW rows, InsertRaw(rows)
  PROVE  ViewsUpToDate'
<1>1. /\ raw' = raw \cup rows
      /\ valid' = ToValid(raw) \cup ToValid(rows)
      /\ invalid' = ToInvalid(raw) \cup ToInvalid(rows)
  BY DEF InsertRaw, ViewsUpToDate
<1>2. valid' = ToValid(raw') /\ invalid' = ToInvalid(raw')
  BY <1>1, ViewsAdd
<1>3. QED
  BY <1>2 DEF ViewsUpToDate, ToValid, ToInvalid

LEMMA ViewsKept == ViewsUpToDate /\ [Next]_vars => ViewsUpToDate'
<1> SUFFICES ASSUME ViewsUpToDate, [Next]_vars PROVE ViewsUpToDate'
  OBVIOUS
<1>1. CASE InsertRows
  <2>1. PICK rows : InsertRaw(rows)
    BY <1>1 DEF InsertRows
  <2>2. QED
    BY <2>1, InsertKeepsViews
<1>2. CASE KafkaToRaw
  <2>1. PICK rows : InsertRaw(rows)
    BY <1>2 DEF KafkaToRaw
  <2>2. QED
    BY <2>1, InsertKeepsViews
<1>3. CASE CsvObjectToRaw
  <2>1. PICK rows : InsertRaw(rows)
    BY <1>3 DEF CsvObjectToRaw
  <2>2. QED
    BY <2>1, InsertKeepsViews
<1>4. CASE HandleEvent \/ Refuse \/ UNCHANGED vars
  <2>1. UNCHANGED tables
    BY <1>4 DEF HandleEvent, Refuse, vars
  <2>2. QED
    BY <2>1 DEF tables, ViewsUpToDate, ToValid, ToInvalid
<1>5. QED
  BY <1>1, <1>2, <1>3, <1>4 DEF Next

\* A row that fails one of the four conditions has the message of that condition.
LEMMA ViewsDivide == ViewsUpToDate => OnePlace
<1> SUFFICES ASSUME ViewsUpToDate PROVE OnePlace
  OBVIOUS
<1>1. ASSUME NEW r \in raw PROVE (r \in valid) # (\E i \in invalid : i.row = r)
  <2>1. CASE r \in valid
    <3>1. /\ r.user_id # "" /\ r.session_id # "" /\ r.page_url # ""
          /\ r.event_type \in AllowedEventTypes
      BY <2>1 DEF ViewsUpToDate, ToValid
    <3>2. ASSUME NEW i \in invalid PROVE i.row # r
      <4>1. PICK q \in raw :
              /\ i = [row |-> q, error_message |-> ErrorMessage(q)]
              /\ ~ (/\ q.user_id # "" /\ q.session_id # "" /\ q.page_url # ""
                    /\ q.event_type \in AllowedEventTypes)
        BY DEF ViewsUpToDate, ToInvalid
      <4>2. i.row = q
        BY <4>1
      <4>3. QED
        BY <3>1, <4>1, <4>2
    <3>3. QED
      BY <2>1, <3>2
  <2>2. CASE r \notin valid
    <3>1. [row |-> r, error_message |-> ErrorMessage(r)] \in invalid
      BY <1>1, <2>2 DEF ViewsUpToDate, ToValid, ToInvalid
    <3>2. QED
      BY <2>2, <3>1
  <2>3. QED
    BY <2>1, <2>2
<1>2. ASSUME NEW i \in invalid PROVE i.row \in raw /\ i.error_message # {}
  <2>1. PICK r \in raw :
          /\ i = [row |-> r, error_message |-> ErrorMessage(r)]
          /\ ~ (/\ r.user_id # "" /\ r.session_id # "" /\ r.page_url # ""
                /\ r.event_type \in AllowedEventTypes)
    BY DEF ViewsUpToDate, ToInvalid
  <2>2. ErrorMessage(r) # {}
    BY <2>1 DEF ErrorMessage
  <2>3. QED
    BY <2>1, <2>2
<1>3. QED
  BY <1>1, <1>2 DEF OnePlace

\* Each row of raw_events is in exactly one of valid_events and invalid_events, and
\* an invalid one has a reason, for any inputs.
THEOREM RowsDivided == Spec => []OnePlace
<1>1. Spec => []ViewsUpToDate
  BY ViewsInitially, ViewsKept, PTL DEF Spec
<1>2. QED
  BY <1>1, ViewsDivide, PTL

-----------------------------------------------------------------------------
(* What the tables hold, row by row. *)

\* What the n-th event sent on a path becomes.
RowFor(s, n) ==
  CASE s = "http" -> ApiRow(sent["http"][n], n)
    [] s = "kafka" -> KafkaRow(sent["kafka"][n], n)
    [] s = "csv" -> CsvToRawRow(sent["csv"][n], n)

SentInv == sent \in [Sources -> Seq(Event)]
ReadInv == read \in [Sources -> Nat] /\ \A s \in Sources : read[s] <= Len(sent[s])

\* Every row comes from an event that was read, and those of Kafka and csv are all
\* there; the API stores only what it has checked and ClickHouse can read.
Passed(e) == ApiError(e) = "" /\ e.created_at = "time"
RawInv ==
  /\ \A r \in raw : \E s \in Sources : \E n \in 1 .. read[s] :
       r = RowFor(s, n) /\ (s = "http" => Passed(sent["http"][n]))
  /\ \A s \in {"kafka", "csv"} : \A n \in 1 .. read[s] : RowFor(s, n) \in raw

Reasons == {"unknown field", "invalid event_type", "missing payload", "payload no JSON",
            "missing required fields"}
ApiRows == {ApiRow(e, n) : e \in Event, n \in Nat}

\* The errors tell whether one of the events read is refused; as long as there is
\* none, the rows are those of the events read.
HandlerInv ==
  /\ handler \in [rows : Seq(ApiRows), errors : Seq(Reasons)]
  /\ handler.errors = <<>>
       <=> \A i \in 1 .. read["http"] : ApiError(sent["http"][i]) = ""
  /\ handler.errors = <<>> =>
       /\ Len(handler.rows) = read["http"]
       /\ \A i \in 1 .. read["http"] : handler.rows[i] = ApiRow(sent["http"][i], i)

\* The rows of a request are stored with its response and at no other time.
Stored == { r.n : r \in { x \in raw : x.source = "http" } }
ReplyInv ==
  /\ reply \in [status : {0, 200, 400, 502}, accepted : Nat, details : 0 .. 5]
  /\ reply.status = 0 <=> reply = NoReply
  /\ reply = NoReply => Stored = {}
  /\ reply # NoReply => read["http"] = Len(sent["http"])
  /\ reply.status = 502 => reply.accepted + 1 \in DOMAIN sent["http"]
  /\ RepliesTell

VInv == SentInv /\ ReadInv /\ RawInv /\ HandlerInv /\ ReplyInv

LEMMA EventFields ==
  ASSUME NEW e \in Event
  PROVE  /\ e.user_id \in {"", "text", "number"} /\ e.session_id \in {"", "text"}
         /\ e.event_type \in EventTypes /\ e.type \in EventTypes
         /\ e.page_url \in {"", "text"} /\ e.url \in {"", "text"}
         /\ e.device_id \in {"none", "", "text"} /\ e.device_type \in {"", "text"}
         /\ e.created_at \in {"", "time", "garbage"}
         /\ e.payload \in {"", "json", "text"} /\ e.extra \in {"", "props", "props_json"}
         /\ e.context \in BOOLEAN
  BY DEF Event

LEMMA TypesNormalized ==
  ASSUME NEW t \in EventTypes PROVE Normalize(t) \in EventTypes
  BY DEF EventTypes, AllowedEventTypes, Normalize

LEMMA RowsTyped ==
  ASSUME NEW e \in Event, NEW n \in Nat \ {0}
  PROVE  /\ KafkaRow(e, n) \in RawRow /\ CsvToRawRow(e, n) \in RawRow
         /\ Passed(e) => ApiRow(e, n) \in RawRow
<1>1. KafkaRow(e, n) \in RawRow
  <2>1. TimeOrNow(e.created_at) \in {"time", "now"}
    BY DEF TimeOrNow
  <2>2. Or(e.extra, "{}") \in {"payload", "props", "props_json", "{}"}
    BY EventFields DEF Or
  <2>3. /\ (IF e.user_id = "number" THEN "" ELSE e.user_id) \in {"", "text", "number"}
        /\ (IF e.device_id = "none" THEN "" ELSE e.device_id) \in {"", "text"}
    BY EventFields
  <2>4. QED
    BY <2>1, <2>2, <2>3, EventFields DEF KafkaRow, RawRow, Sources
<1>2. CsvToRawRow(e, n) \in RawRow
  <2>1. TimeOrNow(e.created_at) \in {"time", "now"}
    BY DEF TimeOrNow
  <2>2. QED
    BY <2>1, EventFields DEF CsvToRawRow, RawRow, Sources
<1>3. ASSUME Passed(e) PROVE ApiRow(e, n) \in RawRow
  <2>1. ApiType(e) \in EventTypes
    <3>1. Or(e.event_type, e.type) \in EventTypes
      BY EventFields DEF Or
    <3>2. QED
      BY <3>1, TypesNormalized DEF ApiType
  <2>2. ApiUrl(e) \in {"", "text"}
    BY EventFields DEF ApiUrl, Or
  <2>3. e.created_at = "time"
    BY <1>3 DEF Passed
  <2>4. QED
    BY <2>1, <2>2, <2>3, EventFields DEF ApiRow, RawRow, Sources
<1>4. QED
  BY <1>1, <1>2, <1>3

\* Where an event is not refused.
LEMMA NotRefused ==
  ASSUME NEW e \in Event, ApiError(e) = ""
  PROVE  /\ e.session_id # "" /\ e.created_at # "" /\ ApiUrl(e) # ""
         /\ ApiType(e) \in AllowedEventTypes
<1>1. e.extra # "props" /\ ApiType(e) \in AllowedEventTypes
  BY DEF ApiError
<1>2. e.payload # "" /\ e.payload # "text"
  BY <1>1 DEF ApiError
<1>3. ~ (\/ e.session_id = "" \/ e.created_at = "" \/ ApiUrl(e) = ""
         \/ e.device_type = "" \/ ~ e.context)
  BY <1>1, <1>2 DEF ApiError
<1>4. QED
  BY <1>1, <1>3

LEMMA ErrorsNamed == ASSUME NEW e \in Event PROVE ApiError(e) \in Reasons \cup {""}
  BY DEF ApiError, Reasons

-----------------------------------------------------------------------------
(* The sequences sent, and how much of them is read. *)

LEMMA GeneratorTyped ==
  /\ GeneratorSends \in [Sources -> Seq(Event)]
  /\ \A s \in Sources : /\ DOMAIN GeneratorSends[s] = DOMAIN Produced
                        /\ Len(GeneratorSends[s]) = Len(Produced)
<1>1. ASSUME NEW e \in MakeRandomEvent
      PROVE  EventToJson(e) \in Event /\ CsvRow(e) \in Event
  <2>1. e.type \in EventTypes /\ "" \in EventTypes
    BY DEF MakeRandomEvent, EventTypes
  <2>2. EventToJson(e) \in Event
    BY <2>1 DEF EventToJson, Event
  <2>3. CsvRow(e) = [[[EventToJson(e) EXCEPT !.type = ""] EXCEPT !.page_url = ""]
                     EXCEPT !.device_id = "none"]
    BY DEF CsvRow
  <2>4. CsvRow(e) \in Event
    <3> DEFINE F == [EventToJson(e) EXCEPT !.type = ""]
    <3>1. F \in Event
      BY <2>1, <2>2 DEF Event
    <3> HIDE DEF F
    <3> DEFINE G == [F EXCEPT !.page_url = ""]
    <3>2. G \in Event
      BY <3>1 DEF Event
    <3> HIDE DEF G
    <3>3. [G EXCEPT !.device_id = "none"] \in Event
      BY <3>2 DEF Event
    <3>4. QED
      BY <2>3, <3>3 DEF F, G
  <2>5. QED
    BY <2>2, <2>4
<1>2. ASSUME NEW s \in Sources
      PROVE  /\ GeneratorSends[s] \in Seq(Event)
             /\ DOMAIN GeneratorSends[s] = DOMAIN Produced
             /\ Len(GeneratorSends[s]) = Len(Produced)
  <2>1. /\ Len(Produced) \in Nat /\ DOMAIN Produced = 1 .. Len(Produced)
        /\ \A i \in 1 .. Len(Produced) : Produced[i] \in MakeRandomEvent
    BY InputsAssumption, ElementOfSeq, LenProperties
  <2>2. GeneratorSends[s] = [i \in 1 .. Len(Produced) |->
          IF s = "csv" THEN CsvRow(Produced[i]) ELSE EventToJson(Produced[i])]
    BY <2>1 DEF GeneratorSends
  <2>3. GeneratorSends[s] \in [1 .. Len(Produced) -> Event]
    BY <1>1, <2>1, <2>2
  <2>4. QED
    BY <2>1, <2>3, SeqDef, LenProperties
<1>3. QED
  BY <1>2 DEF GeneratorSends

LEMMA SentInit == Init => SentInv /\ ReadInv
<1> SUFFICES ASSUME Init PROVE SentInv /\ ReadInv
  OBVIOUS
<1>1. ASSUME NEW source, NEW q \in Seq(Event)
      PROVE  Only(source, q) \in [Sources -> Seq(Event)]
  BY EmptySeq DEF Only
<1>2. ASSUME NEW e \in Event PROVE <<e>> \in Seq(Event)
  OBVIOUS
<1>3. SentInv
  BY <1>1, <1>2, GeneratorTyped, InputsAssumption DEF Init, SentInv
<1>4. \A s \in Sources : Len(sent[s]) \in Nat
  BY <1>3, LenProperties DEF SentInv
<1>5. QED
  BY <1>3, <1>4 DEF Init, ReadInv

LEMMA SentTyped ==
  ASSUME SentInv, NEW s \in Sources
  PROVE  /\ Len(sent[s]) \in Nat /\ DOMAIN sent[s] = 1 .. Len(sent[s])
         /\ \A i \in 1 .. Len(sent[s]) : sent[s][i] \in Event
  BY ElementOfSeq, LenProperties DEF SentInv

LEMMA SentNext == SentInv /\ ReadInv /\ [Next]_vars => SentInv' /\ ReadInv' /\ sent' = sent
<1> SUFFICES ASSUME SentInv, ReadInv, [Next]_vars PROVE SentInv' /\ ReadInv' /\ sent' = sent
  OBVIOUS
<1>1. sent' = sent
  BY DEF Next, HandleEvent, Refuse, InsertRows, KafkaToRaw, CsvObjectToRaw, vars
<1>2. \A s \in Sources : Len(sent[s]) \in Nat /\ read[s] \in Nat
  BY SentTyped DEF ReadInv
<1>3. CASE HandleEvent
  BY <1>1, <1>2, <1>3 DEF SentInv, ReadInv, HandleEvent, Sources
<1>4. CASE KafkaToRaw
  BY <1>1, <1>2, <1>4 DEF SentInv, ReadInv, KafkaToRaw, Sources
<1>5. CASE CsvObjectToRaw
  BY <1>1, <1>2, <1>5 DEF SentInv, ReadInv, CsvObjectToRaw, Sources
<1>6. CASE Refuse \/ InsertRows \/ UNCHANGED vars
  BY <1>1, <1>6 DEF SentInv, ReadInv, Refuse, InsertRows, vars
<1>7. QED
  BY <1>1, <1>3, <1>4, <1>5, <1>6 DEF Next

-----------------------------------------------------------------------------
(* The loop of handle_events. *)

LEMMA Appended ==
  ASSUME NEW S, NEW q \in Seq(S), NEW x \in S
  PROVE  /\ Append(q, x) \in Seq(S) /\ Append(q, x) # <<>>
         /\ Len(q) \in Nat /\ Len(Append(q, x)) = Len(q) + 1
         /\ \A i \in 1 .. Len(q) : Append(q, x)[i] = q[i]
         /\ Append(q, x)[Len(q) + 1] = x
<1>1. Len(q) \in Nat
  BY LenProperties
<1>2. /\ Append(q, x) \in Seq(S) /\ Len(Append(q, x)) = Len(q) + 1
      /\ \A i \in 1 .. Len(q) : Append(q, x)[i] = q[i]
      /\ Append(q, x)[Len(q) + 1] = x
  BY AppendProperties
<1>3. Append(q, x) # <<>>
  BY <1>1, <1>2, EmptySeq
<1>4. QED
  BY <1>1, <1>2, <1>3

LEMMA OneMoreError ==
  ASSUME NEW e \in Event, NEW errors \in Seq(Reasons)
  PROVE  /\ ErrorsOf(e, errors) \in Seq(Reasons)
         /\ ErrorsOf(e, errors) = <<>> <=> errors = <<>> /\ ApiError(e) = ""
<1>1. CASE errors # <<>> /\ ApiError(e) # "unknown field"
  BY <1>1 DEF ErrorsOf
<1>2. CASE ~(errors # <<>> /\ ApiError(e) # "unknown field") /\ ApiError(e) = ""
  BY <1>2 DEF ErrorsOf
<1>3. CASE ~(errors # <<>> /\ ApiError(e) # "unknown field") /\ ApiError(e) # ""
  <2>1. ApiError(e) \in Reasons /\ ErrorsOf(e, errors) = Append(errors, ApiError(e))
    BY <1>3, ErrorsNamed DEF ErrorsOf
  <2>2. Append(errors, ApiError(e)) \in Seq(Reasons) /\ Append(errors, ApiError(e)) # <<>>
    BY <2>1, Appended
  <2>3. QED
    BY <1>3, <2>1, <2>2
<1>4. QED
  BY <1>1, <1>2, <1>3

LEMMA HandlerInit == Init => HandlerInv
<1> SUFFICES ASSUME Init PROVE HandlerInv
  OBVIOUS
<1>1. handler = [rows |-> <<>>, errors |-> <<>>] /\ read["http"] = 0
  BY DEF Init, Idle, Sources
<1>2. <<>> \in Seq(ApiRows) /\ <<>> \in Seq(Reasons) /\ Len(<<>>) = 0
  BY EmptySeq
<1>3. QED
  BY <1>1, <1>2 DEF HandlerInv

LEMMA HandlerNext ==
  ASSUME SentInv, ReadInv, HandlerInv, [Next]_vars
  PROVE  HandlerInv'
<1>1. sent' = sent
  BY SentNext
<1>2. CASE UNCHANGED <<handler, read["http"]>>
  BY <1>1, <1>2 DEF HandlerInv
<1>3. CASE HandleEvent
  <2> DEFINE n == read["http"] + 1
             e == sent["http"][n]
             errors == ErrorsOf(e, handler.errors)
  <2>1. /\ n <= Len(sent["http"]) /\ read["http"] \in Nat /\ "http" \in Sources
        /\ read' = [read EXCEPT !["http"] = n]
        /\ handler' = [rows |-> IF errors = <<>> THEN Append(handler.rows, ApiRow(e, n))
                                ELSE handler.rows,
                       errors |-> errors]
    BY <1>3 DEF HandleEvent, ReadInv, Sources
  <2>2. e \in Event
    BY <2>1, SentTyped
  <2>3. handler.rows \in Seq(ApiRows) /\ handler.errors \in Seq(Reasons)
    BY DEF HandlerInv
  <2>4. errors \in Seq(Reasons) /\ (errors = <<>> <=> handler.errors = <<>> /\ ApiError(e) = "")
    BY <2>2, <2>3, OneMoreError
  <2>5. read'["http"] = n /\ handler'.errors = errors
    BY <2>1 DEF ReadInv
  <2>6. ApiRow(e, n) \in ApiRows
    BY <2>1, <2>2 DEF ApiRows
  <2>7. handler'.rows = IF errors = <<>> THEN Append(handler.rows, ApiRow(e, n))
                        ELSE handler.rows
    BY <2>1
  <2>8. handler'.rows \in Seq(ApiRows)
    BY <2>3, <2>6, <2>7, Appended
  <2>9. handler' \in [rows : Seq(ApiRows), errors : Seq(Reasons)]
    BY <2>1, <2>4, <2>7, <2>8
  <2>10. \A i \in 1 .. n : i \in 1 .. read["http"] \/ i = n
    BY <2>1
  <2> HIDE DEF errors
  <2>11. handler'.errors = <<>> <=> \A i \in 1 .. n : ApiError(sent["http"][i]) = ""
    <3>1. 1 .. n = 1 .. read["http"] \cup {n}
      BY <2>1
    <3>2. handler.errors = <<>>
            <=> \A i \in 1 .. read["http"] : ApiError(sent["http"][i]) = ""
      BY DEF HandlerInv
    <3> HIDE DEF n
    <3>3. QED
      BY <2>4, <2>5, <3>1, <3>2
  <2>12. ASSUME errors = <<>>
         PROVE  /\ Len(handler'.rows) = n
                /\ \A i \in 1 .. n : handler'.rows[i] = ApiRow(sent["http"][i], i)
    <3>1. /\ Len(handler.rows) = read["http"]
          /\ \A i \in 1 .. read["http"] : handler.rows[i] = ApiRow(sent["http"][i], i)
      BY <2>4, <2>12 DEF HandlerInv
    <3>2. handler'.rows = Append(handler.rows, ApiRow(e, n))
      BY <2>7, <2>12
    <3>3. /\ Len(handler'.rows) = n /\ handler'.rows[n] = ApiRow(e, n)
          /\ \A i \in 1 .. read["http"] : handler'.rows[i] = handler.rows[i]
      BY <2>3, <2>6, <3>1, <3>2, Appended
    <3>4. QED
      BY <2>10, <3>1, <3>3
  <2>13. QED
    BY <1>1, <2>5, <2>9, <2>11, <2>12 DEF HandlerInv
<1>4. CASE ~HandleEvent
  <2>1. UNCHANGED handler
    BY <1>4 DEF Next, Refuse, InsertRows, KafkaToRaw, CsvObjectToRaw, vars
  <2>2. read'["http"] = read["http"]
    BY <1>4 DEF Next, Refuse, InsertRows, KafkaToRaw, CsvObjectToRaw, vars, ReadInv, Sources
  <2>3. QED
    BY <1>2, <2>1, <2>2
<1>5. QED
  BY <1>3, <1>4

-----------------------------------------------------------------------------
(* The rows of raw_events. *)

LEMMA RawInit == Init => RawInv
  BY DEF Init, RawInv, Sources

\* What the rows of a step add to the invariant.
LEMMA RawGrows ==
  ASSUME SentInv, ReadInv, RawInv, [Next]_vars, NEW rows, raw' = raw \cup rows,
         \A r \in rows : \E s \in Sources : \E n \in 1 .. read'[s] :
           r = RowFor(s, n) /\ (s = "http" => Passed(sent["http"][n])),
         \A s \in {"kafka", "csv"} : \A n \in 1 .. read'[s] :
           n \in 1 .. read[s] \/ RowFor(s, n) \in rows
  PROVE  RawInv'
<1>1. sent' = sent
  BY SentNext
<1>2. \A s \in Sources : read[s] \in Nat /\ read'[s] \in Nat
  BY SentNext DEF ReadInv
<1>3. \A s \in Sources : read[s] <= read'[s]
  <2>1. \A s \in Sources : read[s] <= Len(sent[s]) /\ Len(sent[s]) \in Nat
    BY SentTyped DEF ReadInv
  <2>2. CASE UNCHANGED read
    BY <1>2, <2>2
  <2>3. CASE ~UNCHANGED read
    <3>1. \/ read' = [read EXCEPT !["http"] = read["http"] + 1]
          \/ read' = [read EXCEPT !["kafka"] = read["kafka"] + 1]
          \/ read' = [read EXCEPT !["csv"] = Len(sent["csv"])]
      BY <2>3 DEF Next, HandleEvent, Refuse, InsertRows, KafkaToRaw, CsvObjectToRaw, vars
    <3>2. QED
      BY <1>2, <2>1, <3>1 DEF ReadInv, Sources
  <2>4. QED
    BY <2>2, <2>3
<1>4. \A s \in Sources : \A n \in 1 .. read[s] : n \in 1 .. read'[s]
  BY <1>2, <1>3
<1>5. \A s, n : RowFor(s, n)' = RowFor(s, n)
  BY <1>1 DEF RowFor
<1>6. ASSUME NEW r \in raw'
      PROVE  \E s \in Sources : \E n \in 1 .. read'[s] :
               r = RowFor(s, n) /\ (s = "http" => Passed(sent["http"][n]))
  <2>1. CASE r \in raw
    BY <1>4, <2>1 DEF RawInv
  <2>2. CASE r \in rows
    BY <2>2
  <2>3. QED
    BY <2>1, <2>2
<1>7. \A s \in {"kafka", "csv"} : \A n \in 1 .. read'[s] : RowFor(s, n) \in raw'
  BY DEF RawInv
<1>8. QED
  BY <1>1, <1>5, <1>6, <1>7 DEF RawInv

\* The smallest number that is missing from an initial part of 1 .. L ends it.
LEMMA InitialPart ==
  ASSUME NEW L \in Nat, NEW S \in SUBSET (1 .. L),
         \A k \in S : \A j \in 1 .. k : j \in S
  PROVE  /\ S = 1 .. Cardinality(S) /\ Cardinality(S) \in 0 .. L
         /\ Cardinality(S) < L => Cardinality(S) + 1 \notin S
<1> DEFINE T == (1 .. L + 1) \ S
           Below == {ss \in Nat \X Nat : ss[1] < ss[2]}
<1>1. IsWellFoundedOn(Below, Nat)
  BY NatLessThanWellFounded DEF OpToRel
<1>2. T \subseteq Nat /\ L + 1 \in T
  OBVIOUS
<1>3. PICK m \in T : \A y \in T : ~ (<<y, m>> \in Below)
  BY <1>1, <1>2, WFMin
<1>4. m \in 1 .. L + 1 /\ m \notin S /\ \A y \in T : ~(y < m)
  BY <1>2, <1>3
<1>5. S = 1 .. (m - 1)
  <2>1. ASSUME NEW k \in 1 .. (m - 1) PROVE k \in S
    BY <1>4, <2>1
  <2>2. ASSUME NEW k \in S PROVE k \in 1 .. (m - 1)
    <3>1. k \in Nat /\ 1 <= k
      OBVIOUS
    <3>2. ~(m <= k)
      BY <1>4, <3>1
    <3>3. QED
      BY <1>4, <3>1, <3>2
  <2>3. QED
    BY <2>1, <2>2
<1>6. Cardinality(S) = m - 1
  BY <1>4, <1>5, FS_Interval
<1>7. QED
  BY <1>4, <1>5, <1>6

\* The rows of a request of which no event is refused.
RowsOf(rows, events, L) ==
  /\ DOMAIN rows = 1 .. L
  /\ \A i \in 1 .. L : /\ events[i] \in Event /\ ApiError(events[i]) = ""
                       /\ rows[i] = ApiRow(events[i], i)

\* InsertRows stores those before the first that ClickHouse refuses.
LEMMA InsertedRows ==
  ASSUME NEW L \in Nat, NEW rows, NEW events, RowsOf(rows, events, L)
  PROVE  LET ok == Inserted(rows)
             c == Cardinality(ok)
         IN  /\ ok = 1 .. c /\ c \in 0 .. L
             /\ ok = 1 .. L <=> c = L
             /\ c < L => events[c + 1].created_at = "garbage"
             /\ \A k \in ok : rows[k] = ApiRow(events[k], k) /\ Passed(events[k])
<1> DEFINE ok == Inserted(rows)
           Readable(k) == events[k].created_at # "garbage"
           c == Cardinality(ok)
<1>1. ASSUME NEW i \in 1 .. L PROVE rows[i].event_time = events[i].created_at
  <2>1. rows[i] = ApiRow(events[i], i)
    BY DEF RowsOf
  <2>2. ApiRow(events[i], i).event_time = events[i].created_at
    BY DEF ApiRow
  <2>3. QED
    BY <2>1, <2>2
<1>2. \A k \in 1 .. L : \A j \in 1 .. k : j \in 1 .. L
  OBVIOUS
<1>3. ok = {k \in 1 .. L : \A j \in 1 .. k : Readable(j)}
  <2>1. ok = {k \in 1 .. L : \A j \in 1 .. k : rows[j].event_time # "garbage"}
    BY DEF RowsOf, Inserted
  <2>2. QED
    BY <1>1, <1>2, <2>1
<1> HIDE DEF ok, Readable
<1>4. \A k \in ok : k \in 1 .. L /\ Readable(k)
  BY <1>3
<1>5. \A k \in ok : \A j \in 1 .. k : j \in ok
  <2>1. ASSUME NEW k \in ok, NEW j \in 1 .. k PROVE j \in 1 .. L /\ \A i \in 1 .. j : i \in 1 .. k
    BY <1>4
  <2>2. QED
    BY <1>3, <2>1
<1>6. ok = 1 .. c /\ c \in 0 .. L /\ (c < L => c + 1 \notin ok)
  BY <1>4, <1>5, InitialPart
<1>7. ASSUME c < L PROVE ~Readable(c + 1)
  <2>1. c + 1 \in 1 .. L /\ c \in Nat /\ c + 1 \notin ok
    BY <1>6, <1>7
  <2>2. PICK j \in 1 .. (c + 1) : ~Readable(j)
    BY <1>3, <2>1
  <2>3. j \notin ok
    BY <1>4, <2>2
  <2>4. j = c + 1
    BY <1>6, <2>1, <2>3
  <2>5. QED
    BY <2>2, <2>4
<1>8. ASSUME NEW k \in ok
      PROVE  rows[k] = ApiRow(events[k], k) /\ Passed(events[k])
  <2>1. k \in 1 .. L /\ events[k].created_at # "garbage"
    BY <1>4 DEF Readable
  <2>2. events[k] \in Event /\ ApiError(events[k]) = "" /\ rows[k] = ApiRow(events[k], k)
    BY <2>1 DEF RowsOf
  <2>3. events[k].created_at = "time"
    BY <2>1, <2>2, EventFields, NotRefused
  <2>4. QED
    BY <2>2, <2>3 DEF Passed
<1>9. ok = 1 .. L <=> c = L
  <2>1. ok = 1 .. L => c = L
    BY FS_Interval
  <2>2. QED
    BY <1>6, <2>1
<1>10. QED
  BY <1>6, <1>7, <1>8, <1>9 DEF ok, Readable

LEMMA Handled ==
  ASSUME SentInv, ReadInv, HandlerInv, handler.errors = <<>>
  PROVE  read["http"] \in Nat /\ RowsOf(handler.rows, sent["http"], read["http"])
<1>1. read["http"] \in Nat /\ read["http"] <= Len(sent["http"]) /\ "http" \in Sources
  BY DEF ReadInv, Sources
<1>2. \A i \in 1 .. read["http"] : sent["http"][i] \in Event
  BY <1>1, SentTyped
<1>3. handler.rows \in Seq(ApiRows) /\ Len(handler.rows) = read["http"]
  BY DEF HandlerInv
<1>4. DOMAIN handler.rows = 1 .. read["http"]
  BY <1>3, LenProperties
<1>5. \A i \in 1 .. read["http"] : /\ ApiError(sent["http"][i]) = ""
                                   /\ handler.rows[i] = ApiRow(sent["http"][i], i)
  BY DEF HandlerInv
<1>6. QED
  BY <1>1, <1>2, <1>4, <1>5 DEF RowsOf

\* What InsertRows stores and answers.
LEMMA InsertRowsDoes ==
  ASSUME SentInv, ReadInv, HandlerInv, InsertRows
  PROVE  \E c \in 0 .. Len(sent["http"]) :
           /\ raw' = raw \cup {ApiRow(sent["http"][k], k) : k \in 1 .. c}
           /\ \A k \in 1 .. c : Passed(sent["http"][k])
           /\ reply' = [status |-> IF c = Len(sent["http"]) THEN 200 ELSE 502,
                        accepted |-> c, details |-> 0]
           /\ c < Len(sent["http"]) => sent["http"][c + 1].created_at = "garbage"
<1> DEFINE ok == Inserted(handler.rows)
           c == Cardinality(ok)
           L == read["http"]
<1>1. /\ handler.errors = <<>> /\ L = Len(sent["http"])
      /\ raw' = raw \cup { handler.rows[k] : k \in ok }
      /\ reply' = [status |-> IF ok = DOMAIN handler.rows THEN 200 ELSE 502,
                   accepted |-> c, details |-> 0]
  BY DEF InsertRows, InsertRaw, AllHandled
<1>2. L \in Nat /\ RowsOf(handler.rows, sent["http"], L)
  BY <1>1, Handled
<1>3. /\ ok = 1 .. c /\ c \in 0 .. L
      /\ ok = 1 .. L <=> c = L
      /\ c < L => sent["http"][c + 1].created_at = "garbage"
      /\ \A k \in ok : /\ handler.rows[k] = ApiRow(sent["http"][k], k)
                       /\ Passed(sent["http"][k])
  <2> HIDE DEF L
  <2>1. QED
    BY <1>2, InsertedRows
<1>4. DOMAIN handler.rows = 1 .. L
  BY <1>2 DEF RowsOf
<1> HIDE DEF ok, c, L
<1>5. raw' = raw \cup {ApiRow(sent["http"][k], k) : k \in 1 .. c}
  BY <1>1, <1>3
<1>6. reply' = [status |-> IF c = L THEN 200 ELSE 502, accepted |-> c, details |-> 0]
  BY <1>1, <1>3, <1>4
<1>7. QED
  BY <1>1, <1>3, <1>5, <1>6

LEMMA RawNext ==
  ASSUME SentInv, ReadInv, HandlerInv, RawInv, [Next]_vars
  PROVE  RawInv'
<1>1. /\ "http" \in Sources /\ "kafka" \in Sources /\ "csv" \in Sources
      /\ read \in [Sources -> Nat]
      /\ \A s \in Sources : read[s] \in Nat /\ Len(sent[s]) \in Nat
  BY SentTyped DEF ReadInv, Sources
<1>2. CASE HandleEvent \/ Refuse \/ UNCHANGED vars
  <2>1. raw' = raw /\ read'["kafka"] = read["kafka"] /\ read'["csv"] = read["csv"]
    BY <1>1, <1>2 DEF HandleEvent, Refuse, vars, tables
  <2>2. \A s \in {"kafka", "csv"} : \A n \in 1 .. read'[s] : n \in 1 .. read[s]
    BY <2>1
  <2>3. PICK rows : rows = {}
    OBVIOUS
  <2>4. raw' = raw \cup rows
    BY <2>1, <2>3
  <2>5. \A r \in rows : \E s \in Sources : \E n \in 1 .. read'[s] :
          r = RowFor(s, n) /\ (s = "http" => Passed(sent["http"][n]))
    BY <2>3
  <2>6. QED
    BY <2>2, <2>4, <2>5, RawGrows
<1>3. CASE InsertRows
  <2>1. PICK c \in 0 .. Len(sent["http"]) :
          /\ raw' = raw \cup {ApiRow(sent["http"][k], k) : k \in 1 .. c}
          /\ \A k \in 1 .. c : Passed(sent["http"][k])
    BY <1>3, InsertRowsDoes
  <2>2. read' = read /\ read["http"] = Len(sent["http"])
    BY <1>3 DEF InsertRows, AllHandled
  <2> DEFINE rows == {ApiRow(sent["http"][k], k) : k \in 1 .. c}
  <2>3. ASSUME NEW r \in rows
        PROVE  \E s \in Sources : \E n \in 1 .. read'[s] :
                 r = RowFor(s, n) /\ (s = "http" => Passed(sent["http"][n]))
    <3>1. PICK k \in 1 .. c : r = ApiRow(sent["http"][k], k)
      OBVIOUS
    <3>2. k \in 1 .. read'["http"]
      BY <1>1, <2>2
    <3>3. r = RowFor("http", k)
      BY <3>1 DEF RowFor
    <3>4. QED
      BY <1>1, <2>1, <3>2, <3>3
  <2>4. \A s \in {"kafka", "csv"} : \A n \in 1 .. read'[s] : n \in 1 .. read[s]
    BY <2>2
  <2>5. raw' = raw \cup rows
    BY <2>1
  <2> HIDE DEF rows
  <2>6. QED
    BY <2>3, <2>4, <2>5, RawGrows
<1>4. CASE KafkaToRaw
  <2> DEFINE n == read["kafka"] + 1
             rows == {KafkaRow(sent["kafka"][n], n)}
  <2>1. raw' = raw \cup rows /\ read' = [read EXCEPT !["kafka"] = n]
    BY <1>4 DEF KafkaToRaw, InsertRaw
  <2>2. read'["kafka"] = n /\ read'["csv"] = read["csv"] /\ n \in 1 .. n
    BY <1>1, <2>1
  <2>3. KafkaRow(sent["kafka"][n], n) = RowFor("kafka", n)
    BY DEF RowFor
  <2>4. \A i \in 1 .. n : i \in 1 .. read["kafka"] \/ i = n
    BY <1>1
  <2> HIDE DEF n
  <2>5. \A r \in rows : \E s \in Sources : \E i \in 1 .. read'[s] :
          r = RowFor(s, i) /\ (s = "http" => Passed(sent["http"][i]))
    BY <1>1, <2>2, <2>3
  <2>6. \A s \in {"kafka", "csv"} : \A i \in 1 .. read'[s] :
          i \in 1 .. read[s] \/ RowFor(s, i) \in rows
    BY <2>2, <2>3, <2>4
  <2> HIDE DEF rows
  <2>7. QED
    BY <2>1, <2>5, <2>6, RawGrows
<1>5. CASE CsvObjectToRaw
  <2> DEFINE L == Len(sent["csv"])
             rows == {CsvToRawRow(sent["csv"][n], n) : n \in 1 .. L}
  <2>1. raw' = raw \cup rows /\ read' = [read EXCEPT !["csv"] = L]
    BY <1>1, <1>5, SentTyped DEF CsvObjectToRaw, InsertRaw
  <2>2. read'["csv"] = L /\ read'["kafka"] = read["kafka"]
    BY <1>1, <2>1
  <2>3. \A n : CsvToRawRow(sent["csv"][n], n) = RowFor("csv", n)
    BY DEF RowFor
  <2> HIDE DEF L
  <2>4. \A r \in rows : \E s \in Sources : \E i \in 1 .. read'[s] :
          r = RowFor(s, i) /\ (s = "http" => Passed(sent["http"][i]))
    BY <1>1, <2>2, <2>3
  <2>5. \A s \in {"kafka", "csv"} : \A i \in 1 .. read'[s] :
          i \in 1 .. read[s] \/ RowFor(s, i) \in rows
    BY <2>2, <2>3
  <2> HIDE DEF rows
  <2>6. QED
    BY <2>1, <2>4, <2>5, RawGrows
<1>6. QED
  BY <1>2, <1>3, <1>4, <1>5 DEF Next

-----------------------------------------------------------------------------
(* The response. *)

\* What RepliesTell says of a response, the events of its body and what is stored.
AnyRefused(events) == \E i \in DOMAIN events : ApiError(events[i]) # ""
Unreadable(events, i) == events[i].created_at = "garbage"
Tells(status, accepted, details, events, stored) ==
  status # 0 =>
    /\ (status = 400) <=> AnyRefused(events)
    /\ (status = 400) <=> details > 0
    /\ stored = 1 .. accepted
    /\ status = 400 => accepted = 0
    /\ status = 200 => accepted = Len(events)
    /\ status = 502 => Unreadable(events, accepted + 1)

LEMMA RepliesTellOf ==
  RepliesTell <=> Tells(reply.status, reply.accepted, reply.details, sent["http"], Stored)
  BY DEF RepliesTell, Tells, AnyRefused, Unreadable, Stored

LEMMA RepliesTellOfNext ==
  RepliesTell' <=> Tells(reply'.status, reply'.accepted, reply'.details, sent'["http"], Stored')
  BY DEF RepliesTell, Tells, AnyRefused, Unreadable, Stored

LEMMA ReplyInit == Init => ReplyInv
<1> SUFFICES ASSUME Init PROVE ReplyInv
  OBVIOUS
<1>1. reply = NoReply /\ reply.status = 0 /\ Stored = {}
  BY DEF Init, NoReply, Stored
<1>2. RepliesTell
  BY <1>1 DEF RepliesTell
<1>3. QED
  BY <1>1, <1>2 DEF ReplyInv, NoReply

\* Rows of the other paths are not the API's.
LEMMA StoredAdd ==
  ASSUME NEW rows, raw' = raw \cup rows
  PROVE  Stored' = Stored \cup { r.n : r \in { x \in rows : x.source = "http" } }
  BY DEF Stored

LEMMA ReplyKept ==
  ASSUME ReplyInv, sent' = sent, reply' = reply, Stored' = Stored,
         read'["http"] = read["http"]
  PROVE  ReplyInv'
<1>1. RepliesTell'
  BY RepliesTellOf, RepliesTellOfNext DEF ReplyInv
<1>2. QED
  BY <1>1 DEF ReplyInv

LEMMA AtMostFive == ASSUME NEW k \in Nat, k # 0 PROVE Least(k, 5) \in 1 .. 5
  BY DEF Least

LEMMA RefusalTells ==
  ASSUME NEW details \in 1 .. 5, NEW events, AnyRefused(events)
  PROVE  Tells(400, 0, details, events, {})
  BY DEF Tells

LEMMA InsertTells ==
  ASSUME NEW events, Len(events) \in Nat, NEW c \in 0 .. Len(events),
         ~AnyRefused(events), c < Len(events) => Unreadable(events, c + 1)
  PROVE  Tells(IF c = Len(events) THEN 200 ELSE 502, c, 0, events, 1 .. c)
<1>1. CASE c = Len(events)
  BY <1>1 DEF Tells
<1>2. CASE c # Len(events)
  BY <1>2 DEF Tells
<1>3. QED
  BY <1>1, <1>2

LEMMA ReplyNext ==
  ASSUME SentInv, ReadInv, HandlerInv, ReplyInv, [Next]_vars
  PROVE  ReplyInv'
<1>1. sent' = sent /\ SentInv' /\ ReadInv'
  BY SentNext
<1>2. /\ "http" \in Sources /\ read \in [Sources -> Nat]
      /\ Len(sent["http"]) \in Nat /\ DOMAIN sent["http"] = 1 .. Len(sent["http"])
  BY SentTyped DEF ReadInv, Sources
<1>3. CASE HandleEvent
  <2>1. reply' = NoReply /\ reply' = reply /\ raw' = raw /\ NoReply.status = 0
    BY <1>3 DEF HandleEvent, tables, NoReply
  <2>2. Stored' = {}
    BY <2>1 DEF ReplyInv, Stored
  <2>3. RepliesTell'
    BY <2>1 DEF RepliesTell
  <2>4. QED
    BY <2>1, <2>2, <2>3 DEF ReplyInv
<1>4. CASE Refuse
  <2>1. /\ reply = NoReply /\ raw' = raw /\ read' = read /\ handler.errors # <<>>
        /\ read["http"] = Len(sent["http"])
        /\ reply' = [status |-> 400, accepted |-> 0,
                     details |-> Least(Len(handler.errors), 5)]
    BY <1>4 DEF Refuse, AllHandled, tables
  <2>2. Stored' = {}
    BY <2>1 DEF ReplyInv, Stored
  <2>3. Least(Len(handler.errors), 5) \in 1 .. 5
    <3>1. handler.errors \in Seq(Reasons)
      BY DEF HandlerInv
    <3>2. Len(handler.errors) \in Nat /\ Len(handler.errors) # 0
      BY <2>1, <3>1, LenProperties, EmptySeq
    <3>3. QED
      BY <3>2, AtMostFive
  <2>4. AnyRefused(sent["http"])
    BY <1>2, <2>1 DEF HandlerInv, AnyRefused
  <2>5. Tells(reply'.status, reply'.accepted, reply'.details, sent["http"], Stored')
    <3>1. /\ reply'.status = 400 /\ reply'.accepted = 0
          /\ reply'.details = Least(Len(handler.errors), 5)
      BY <2>1
    <3>2. QED
      BY <2>2, <2>3, <2>4, <3>1, RefusalTells
  <2>6. RepliesTell'
    BY <1>1, <2>5, RepliesTellOfNext
  <2>7. reply' # NoReply
    BY <2>1 DEF NoReply
  <2>8. QED
    BY <1>1, <2>1, <2>3, <2>6, <2>7 DEF ReplyInv
<1>5. CASE InsertRows
  <2>1. PICK c \in 0 .. Len(sent["http"]) :
          /\ raw' = raw \cup {ApiRow(sent["http"][k], k) : k \in 1 .. c}
          /\ reply' = [status |-> IF c = Len(sent["http"]) THEN 200 ELSE 502,
                       accepted |-> c, details |-> 0]
          /\ c < Len(sent["http"]) => sent["http"][c + 1].created_at = "garbage"
    BY <1>5, InsertRowsDoes
  <2>2. /\ reply = NoReply /\ read' = read /\ handler.errors = <<>>
        /\ read["http"] = Len(sent["http"])
    BY <1>5 DEF InsertRows, AllHandled
  <2>3. Stored' = 1 .. c
    <3> DEFINE rows == {ApiRow(sent["http"][k], k) : k \in 1 .. c}
    <3>1. { r.n : r \in { x \in rows : x.source = "http" } } = 1 .. c
      <4>1. \A k \in 1 .. c : /\ ApiRow(sent["http"][k], k).n = k
                              /\ ApiRow(sent["http"][k], k).source = "http"
        BY DEF ApiRow
      <4>2. QED
        BY <4>1
    <3>2. Stored = {}
      BY <2>2 DEF ReplyInv
    <3>3. raw' = raw \cup rows
      BY <2>1
    <3> HIDE DEF rows
    <3>4. QED
      BY <3>1, <3>2, <3>3, StoredAdd
  <2>4. ~AnyRefused(sent["http"])
    BY <1>2, <2>2 DEF HandlerInv, AnyRefused
  <2>5. /\ reply'.status = IF c = Len(sent["http"]) THEN 200 ELSE 502
        /\ reply'.accepted = c /\ reply'.details = 0 /\ reply' # NoReply
    BY <2>1 DEF NoReply
  <2>6. Tells(reply'.status, reply'.accepted, reply'.details, sent["http"], Stored')
    <3>1. c < Len(sent["http"]) => Unreadable(sent["http"], c + 1)
      BY <2>1 DEF Unreadable
    <3>2. QED
      BY <1>2, <2>3, <2>4, <2>5, <3>1, InsertTells
  <2>7. RepliesTell'
    BY <1>1, <2>6, RepliesTellOfNext
  <2>8. reply' \in [status : {0, 200, 400, 502}, accepted : Nat, details : 0 .. 5]
    BY <2>1
  <2>9. reply'.status = 502 => reply'.accepted + 1 \in DOMAIN sent["http"]
    BY <1>2, <2>1, <2>5
  <2>10. reply'.status # 0
    BY <2>5
  <2>11. QED
    BY <1>1, <2>2, <2>5, <2>7, <2>8, <2>9, <2>10 DEF ReplyInv
<1>6. CASE KafkaToRaw
  <2> DEFINE n == read["kafka"] + 1
             row == KafkaRow(sent["kafka"][n], n)
  <2>1. raw' = raw \cup {row} /\ row.source = "kafka"
    BY <1>6 DEF KafkaToRaw, InsertRaw, KafkaRow
  <2> HIDE DEF n, row
  <2>2. Stored' = Stored
    BY <2>1 DEF Stored
  <2>3. QED
    BY <1>1, <1>2, <1>6, <2>2, ReplyKept DEF KafkaToRaw
<1>7. CASE CsvObjectToRaw
  <2> DEFINE rows == {CsvToRawRow(sent["csv"][n], n) : n \in DOMAIN sent["csv"]}
  <2>1. raw' = raw \cup rows
    BY <1>7 DEF CsvObjectToRaw, InsertRaw
  <2>2. \A r \in rows : r.source # "http"
    <3>1. \A e, n : CsvToRawRow(e, n).source = "csv"
      BY DEF CsvToRawRow
    <3>2. QED
      BY <3>1
  <2> HIDE DEF rows
  <2>3. Stored' = Stored
    BY <2>1, <2>2 DEF Stored
  <2>4. QED
    BY <1>1, <1>2, <1>7, <2>3, ReplyKept DEF CsvObjectToRaw
<1>8. CASE UNCHANGED vars
  <2>1. Stored' = Stored
    BY <1>8 DEF vars, tables, Stored
  <2>2. QED
    BY <1>8, <2>1, ReplyKept DEF vars
<1>9. QED
  BY <1>3, <1>4, <1>5, <1>6, <1>7, <1>8 DEF Next

LEMMA VInvariant == Spec => [](VInv /\ ViewsUpToDate)
<1>1. Init => VInv /\ ViewsUpToDate
  BY SentInit, RawInit, HandlerInit, ReplyInit, ViewsInitially DEF VInv
<1>2. VInv /\ ViewsUpToDate /\ [Next]_vars => (VInv /\ ViewsUpToDate)'
  BY SentNext, RawNext, HandlerNext, ReplyNext, ViewsKept DEF VInv
<1>3. QED
  BY <1>1, <1>2, PTL DEF Spec

-----------------------------------------------------------------------------
(* What follows for every reachable state. *)

LEMMA RowForNamed ==
  ASSUME NEW s \in Sources, NEW n
  PROVE  RowFor(s, n).source = s /\ RowFor(s, n).n = n
<1>1. /\ ApiRow(sent["http"][n], n).source = "http" /\ ApiRow(sent["http"][n], n).n = n
      /\ KafkaRow(sent["kafka"][n], n).source = "kafka" /\ KafkaRow(sent["kafka"][n], n).n = n
      /\ CsvToRawRow(sent["csv"][n], n).source = "csv" /\ CsvToRawRow(sent["csv"][n], n).n = n
  BY DEF ApiRow, KafkaRow, CsvToRawRow
<1>2. QED
  BY <1>1 DEF RowFor, Sources

\* Where a row of raw_events comes from.
LEMMA RowOrigin ==
  ASSUME SentInv, ReadInv, RawInv, NEW r \in raw
  PROVE  \E s \in Sources : \E n \in 1 .. read[s] :
           /\ r = RowFor(s, n) /\ r.source = s /\ r.n = n
           /\ n \in 1 .. Len(sent[s]) /\ sent[s][n] \in Event
           /\ s = "http" => Passed(sent[s][n])
<1>1. PICK s \in Sources : \E n \in 1 .. read[s] :
        r = RowFor(s, n) /\ (s = "http" => Passed(sent["http"][n]))
  BY DEF RawInv
<1>2. PICK n \in 1 .. read[s] : r = RowFor(s, n) /\ (s = "http" => Passed(sent["http"][n]))
  BY <1>1
<1>3. /\ read[s] \in Nat /\ Len(sent[s]) \in Nat /\ read[s] <= Len(sent[s])
      /\ \A i \in 1 .. Len(sent[s]) : sent[s][i] \in Event
  BY SentTyped DEF ReadInv
<1>4. n \in 1 .. Len(sent[s])
  BY <1>3
<1>5. QED
  BY <1>2, <1>3, <1>4, RowForNamed

LEMMA RawTyped ==
  ASSUME SentInv, ReadInv, RawInv, NEW r \in raw
  PROVE  r \in RawRow /\ r.n \in 1 .. read[r.source]
<1>1. PICK s, n :
        /\ s \in Sources /\ n \in 1 .. read[s]
        /\ r = RowFor(s, n) /\ r.source = s /\ r.n = n
        /\ n \in 1 .. Len(sent[s]) /\ sent[s][n] \in Event
        /\ s = "http" => Passed(sent[s][n])
  BY RowOrigin
<1>2. n \in Nat \ {0}
  <2>1. read[s] \in Nat
    BY <1>1 DEF ReadInv
  <2>2. QED
    BY <1>1, <2>1
<1>3. RowFor(s, n) \in RawRow
  <2>1. CASE s = "http"
    BY <1>1, <1>2, <2>1, RowsTyped DEF RowFor
  <2>2. CASE s = "kafka"
    BY <1>1, <1>2, <2>2, RowsTyped DEF RowFor
  <2>3. CASE s = "csv"
    BY <1>1, <1>2, <2>3, RowsTyped DEF RowFor
  <2>4. QED
    BY <1>1, <2>1, <2>2, <2>3 DEF Sources
<1>4. QED
  BY <1>1, <1>3

\* The tables hold rows of raw_events, each of an event that was read.
THEOREM TypeCorrect == Spec => []TypeOK
<1>1. VInv /\ ViewsUpToDate => TypeOK
  <2> SUFFICES ASSUME VInv, ViewsUpToDate PROVE TypeOK
    OBVIOUS
  <2>1. SentInv /\ ReadInv /\ RawInv /\ ReplyInv
    BY DEF VInv
  <2>2. valid \subseteq raw
    BY DEF ViewsUpToDate, ToValid
  <2>3. \A s \in Sources : read[s] \in 0 .. Len(sent[s])
    BY <2>1, SentTyped DEF ReadInv
  <2>4. /\ reply.status \in {0, 200, 400, 502} /\ reply.details \in 0 .. 5
    BY <2>1 DEF ReplyInv
  <2>5. \A r \in raw : r \in RawRow /\ r.n \in 1 .. read[r.source]
    BY <2>1, RawTyped
  <2>6. QED
    BY <2>1, <2>2, <2>3, <2>4, <2>5 DEF TypeOK, SentInv
<1>2. QED
  BY <1>1, VInvariant, PTL

\* The API's checks imply those of the views on session, page and type: the only
\* reason for which an accepted event is invalid is its user_id.
THEOREM AcceptedIsValid == Spec => []StoredIsValid
<1>1. VInv /\ ViewsUpToDate => StoredIsValid
  <2> SUFFICES ASSUME VInv, ViewsUpToDate, NEW i \in invalid, i.row.source = "http"
               PROVE  i.error_message = {"missing_user_id"}
    BY DEF StoredIsValid
  <2>1. SentInv /\ ReadInv /\ RawInv
    BY DEF VInv
  <2>2. PICK r \in raw :
          /\ i = [row |-> r, error_message |-> ErrorMessage(r)]
          /\ ~ (/\ r.user_id # "" /\ r.session_id # "" /\ r.page_url # ""
                /\ r.event_type \in AllowedEventTypes)
    BY DEF ViewsUpToDate, ToInvalid
  <2>3. i.row = r /\ i.error_message = ErrorMessage(r)
    BY <2>2
  <2>4. PICK s, n :
          /\ s \in Sources /\ n \in 1 .. read[s]
          /\ r = RowFor(s, n) /\ r.source = s /\ r.n = n
          /\ n \in 1 .. Len(sent[s]) /\ sent[s][n] \in Event
          /\ s = "http" => Passed(sent[s][n])
    BY <2>1, RowOrigin
  <2> DEFINE e == sent["http"][n]
  <2>5. s = "http" /\ e \in Event /\ ApiError(e) = "" /\ r = ApiRow(e, n)
    BY <2>3, <2>4 DEF RowFor, Passed
  <2>6. /\ e.session_id # "" /\ ApiUrl(e) # "" /\ ApiType(e) \in AllowedEventTypes
    BY <2>5, NotRefused
  <2> HIDE DEF e
  <2>7. r.session_id # "" /\ r.page_url # "" /\ r.event_type \in AllowedEventTypes
    BY <2>5, <2>6 DEF ApiRow
  <2>8. r.user_id = ""
    BY <2>2, <2>7
  <2>9. QED
    BY <2>3, <2>7, <2>8 DEF ErrorMessage
<1>2. QED
  BY <1>1, VInvariant, PTL

\* A response tells the truth about its batch: refused as a whole exactly if one of
\* its events alone would be, stored up to the number it gives otherwise.
THEOREM ResponsesTell == Spec => []RepliesTell
<1>1. VInv /\ ViewsUpToDate => RepliesTell
  BY DEF VInv, ReplyInv
<1>2. QED
  BY <1>1, VInvariant, PTL

-----------------------------------------------------------------------------
(* The events of the generator. *)

\* Their rows.
PropsOn(s) == IF s = "kafka" THEN "{}" ELSE "payload"
DeviceOn(s) == IF s = "csv" THEN "device_type" ELSE "text"
RowOn(s, n) ==
  [source |-> s, n |-> n, user_id |-> "text", session_id |-> "text",
   device_id |-> DeviceOn(s), event_type |-> Produced[n].type, page_url |-> "text",
   event_time |-> "time", props_json |-> PropsOn(s)]

LEMMA EventMade ==
  ASSUME NEW p \in MakeRandomEvent
  PROVE  /\ p.type \in AllowedEventTypes
         /\ EventToJson(p).user_id = "text" /\ EventToJson(p).session_id = "text"
         /\ EventToJson(p).event_type = p.type /\ EventToJson(p).type = p.type
         /\ EventToJson(p).page_url = "text" /\ EventToJson(p).url = "text"
         /\ EventToJson(p).device_id = "text" /\ EventToJson(p).device_type = "text"
         /\ EventToJson(p).created_at = "time" /\ EventToJson(p).payload = "json"
         /\ EventToJson(p).extra = "" /\ EventToJson(p).context = TRUE
         /\ CsvRow(p).user_id = "text" /\ CsvRow(p).session_id = "text"
         /\ CsvRow(p).event_type = p.type /\ CsvRow(p).url = "text"
         /\ CsvRow(p).device_type = "text"
         /\ CsvRow(p).created_at = "time" /\ CsvRow(p).payload = "json"
  BY DEF MakeRandomEvent, EventToJson, CsvRow

LEMMA MadePasses ==
  ASSUME NEW p \in MakeRandomEvent
  PROVE  /\ ApiType(EventToJson(p)) = p.type /\ ApiUrl(EventToJson(p)) = "text"
         /\ ApiError(EventToJson(p)) = ""
<1>1. p.type \in AllowedEventTypes /\ p.type # "" /\ p.type # "PAGE_VIEW"
  BY EventMade DEF AllowedEventTypes
<1>2. ApiType(EventToJson(p)) = p.type
  BY <1>1, EventMade DEF ApiType, Or, Normalize
<1>3. ApiUrl(EventToJson(p)) = "text"
  BY EventMade DEF ApiUrl, Or
<1>4. ApiError(EventToJson(p)) = ""
  BY <1>1, <1>2, <1>3, EventMade DEF ApiError
<1>5. QED
  BY <1>2, <1>3, <1>4

LEMMA SentByGenerator ==
  ASSUME sent = GeneratorSends
  PROVE  /\ Len(Produced) \in Nat /\ DOMAIN Produced = 1 .. Len(Produced)
         /\ \A s \in Sources : Len(sent[s]) = Len(Produced)
         /\ \A n \in 1 .. Len(Produced) :
              /\ Produced[n] \in MakeRandomEvent
              /\ sent["http"][n] = EventToJson(Produced[n])
              /\ sent["kafka"][n] = EventToJson(Produced[n])
              /\ sent["csv"][n] = CsvRow(Produced[n])
<1>1. /\ Len(Produced) \in Nat /\ DOMAIN Produced = 1 .. Len(Produced)
      /\ \A i \in 1 .. Len(Produced) : Produced[i] \in MakeRandomEvent
  BY InputsAssumption, ElementOfSeq, LenProperties
<1>2. \A s \in Sources : Len(sent[s]) = Len(Produced)
  BY GeneratorTyped
<1>3. \A n \in DOMAIN Produced :
        /\ sent["http"][n] = EventToJson(Produced[n])
        /\ sent["kafka"][n] = EventToJson(Produced[n])
        /\ sent["csv"][n] = CsvRow(Produced[n])
  BY DEF GeneratorSends, Sources
<1>4. QED
  BY <1>1, <1>2, <1>3

LEMMA RowMade ==
  ASSUME sent = GeneratorSends, NEW s \in Sources, NEW n \in 1 .. Len(Produced)
  PROVE  RowFor(s, n) = RowOn(s, n)
<1> DEFINE p == Produced[n]
<1>1. /\ p \in MakeRandomEvent
      /\ sent["http"][n] = EventToJson(p) /\ sent["kafka"][n] = EventToJson(p)
      /\ sent["csv"][n] = CsvRow(p)
  BY SentByGenerator
<1>2. CASE s = "http"
  <2>1. RowFor(s, n) = ApiRow(EventToJson(p), n)
    BY <1>1, <1>2 DEF RowFor
  <2> HIDE DEF p
  <2>2. ApiRow(EventToJson(p), n) =
          [source |-> "http", n |-> n, user_id |-> "text", session_id |-> "text",
           device_id |-> "text",
           event_type |-> p.type, page_url |-> "text", event_time |-> "time",
           props_json |-> "payload"]
    BY <1>1, EventMade, MadePasses DEF ApiRow
  <2>3. QED
    BY <1>2, <2>1, <2>2 DEF RowOn, PropsOn, DeviceOn, p
<1>3. CASE s = "kafka"
  <2>1. RowFor(s, n) = KafkaRow(EventToJson(p), n)
    BY <1>1, <1>3 DEF RowFor
  <2> HIDE DEF p
  <2>2. KafkaRow(EventToJson(p), n) =
          [source |-> "kafka", n |-> n, user_id |-> "text", session_id |-> "text",
           device_id |-> "text",
           event_type |-> p.type, page_url |-> "text", event_time |-> "time",
           props_json |-> "{}"]
    BY <1>1, EventMade DEF KafkaRow, TimeOrNow, Or
  <2>3. QED
    BY <1>3, <2>1, <2>2 DEF RowOn, PropsOn, DeviceOn, p
<1>4. CASE s = "csv"
  <2>1. RowFor(s, n) = CsvToRawRow(CsvRow(p), n)
    BY <1>1, <1>4 DEF RowFor
  <2> HIDE DEF p
  <2>2. CsvToRawRow(CsvRow(p), n) =
          [source |-> "csv", n |-> n, user_id |-> "text", session_id |-> "text",
           device_id |-> "device_type",
           event_type |-> p.type, page_url |-> "text", event_time |-> "time",
           props_json |-> "payload"]
    BY <1>1, EventMade DEF CsvToRawRow, TimeOrNow
  <2>3. QED
    BY <1>4, <2>1, <2>2 DEF RowOn, PropsOn, DeviceOn, p
<1>5. QED
  BY <1>2, <1>3, <1>4 DEF Sources

LEMMA RowIsItsFields ==
  ASSUME NEW r \in RawRow
  PROVE  r = [source |-> r.source, n |-> r.n, user_id |-> r.user_id,
              session_id |-> r.session_id, device_id |-> r.device_id,
              event_type |-> r.event_type, page_url |-> r.page_url,
              event_time |-> r.event_time, props_json |-> r.props_json]
  BY DEF RawRow

\* Two rows that differ in source, payload and device at most.
LEMMA SameButSource ==
  ASSUME NEW r \in RawRow, NEW q \in RawRow,
         r.n = q.n, r.user_id = q.user_id, r.session_id = q.session_id,
         r.event_type = q.event_type, r.page_url = q.page_url,
         r.event_time = q.event_time
  PROVE  [r EXCEPT !.source = q.source, !.props_json = q.props_json,
                   !.device_id = q.device_id] = q
<1> DEFINE F == [r EXCEPT !.source = q.source]
           G == [F EXCEPT !.props_json = q.props_json]
           H == [G EXCEPT !.device_id = q.device_id]
<1>1. /\ F \in RawRow /\ F.source = q.source /\ F.n = r.n /\ F.user_id = r.user_id
      /\ F.session_id = r.session_id /\ F.event_type = r.event_type
      /\ F.page_url = r.page_url /\ F.event_time = r.event_time
  BY DEF RawRow
<1>2. [r EXCEPT !.source = q.source, !.props_json = q.props_json,
                !.device_id = q.device_id] = H
  OBVIOUS
<1> HIDE DEF F
<1>3. /\ G \in RawRow /\ G.props_json = q.props_json /\ G.source = F.source
      /\ G.n = F.n /\ G.user_id = F.user_id /\ G.session_id = F.session_id
      /\ G.event_type = F.event_type /\ G.page_url = F.page_url
      /\ G.event_time = F.event_time
  BY <1>1 DEF RawRow
<1> HIDE DEF G
<1>4. /\ H \in RawRow /\ H.device_id = q.device_id /\ H.props_json = G.props_json
      /\ H.source = G.source /\ H.n = G.n /\ H.user_id = G.user_id
      /\ H.session_id = G.session_id /\ H.event_type = G.event_type
      /\ H.page_url = G.page_url /\ H.event_time = G.event_time
  BY <1>3 DEF RawRow
<1> HIDE DEF H
<1>5. H = q
  <2>1. /\ H.source = q.source /\ H.n = q.n /\ H.user_id = q.user_id
        /\ H.session_id = q.session_id /\ H.event_type = q.event_type
        /\ H.page_url = q.page_url /\ H.event_time = q.event_time
        /\ H.props_json = q.props_json /\ H.device_id = q.device_id
    BY <1>1, <1>3, <1>4
  <2>2. H = [source |-> H.source, n |-> H.n, user_id |-> H.user_id,
             session_id |-> H.session_id, device_id |-> H.device_id,
             event_type |-> H.event_type, page_url |-> H.page_url,
             event_time |-> H.event_time, props_json |-> H.props_json]
    BY <1>4, RowIsItsFields
  <2>3. q = [source |-> q.source, n |-> q.n, user_id |-> q.user_id,
             session_id |-> q.session_id, device_id |-> q.device_id,
             event_type |-> q.event_type, page_url |-> q.page_url,
             event_time |-> q.event_time, props_json |-> q.props_json]
    BY RowIsItsFields
  <2>4. QED
    BY <2>1, <2>2, <2>3
<1>6. QED
  BY <1>2, <1>5

\* An event of the generator is stored as valid on every path, with the same user,
\* session, type, page and time; the view of the Kafka topic does not read the
\* payload, and DAG 01 stores the device_type as the device_id.
THEOREM PathsAgree == Spec => []SameOnEveryPath
<1>1. VInv /\ ViewsUpToDate => SameOnEveryPath
  <2> SUFFICES ASSUME VInv, ViewsUpToDate, sent = GeneratorSends
               PROVE  SameOnEveryPath
    BY DEF SameOnEveryPath
  <2>1. SentInv /\ ReadInv /\ RawInv /\ ReplyInv
    BY DEF VInv
  <2>2. ASSUME NEW s \in {"kafka", "csv"}, NEW n \in DOMAIN Produced, n <= read[s]
        PROVE  \E r \in valid : r.source = s /\ r.n = n
    <3>1. n \in 1 .. Len(Produced) /\ read[s] \in Nat /\ n \in 1 .. read[s] /\ s \in Sources
      BY <2>1, <2>2, SentByGenerator DEF ReadInv, Sources
    <3>2. RowFor(s, n) \in raw /\ RowFor(s, n) = RowOn(s, n)
      BY <2>1, <3>1, RowMade DEF RawInv
    <3>3. Produced[n].type \in AllowedEventTypes
      BY <3>1, SentByGenerator, EventMade
    <3> DEFINE r == RowOn(s, n)
    <3>4. /\ r.user_id # "" /\ r.session_id # "" /\ r.page_url # ""
          /\ r.event_type \in AllowedEventTypes /\ r.source = s /\ r.n = n
      BY <3>3 DEF RowOn
    <3> HIDE DEF r
    <3>5. r \in valid
      BY <3>2, <3>4 DEF ViewsUpToDate, ToValid, r
    <3>6. QED
      BY <3>4, <3>5
  <2>3. reply.status \in {0, 200}
    <3>1. \A i \in DOMAIN sent["http"] :
            /\ ApiError(sent["http"][i]) = "" /\ sent["http"][i].created_at = "time"
      <4>1. DOMAIN sent["http"] = 1 .. Len(Produced)
        BY <2>1, SentByGenerator, SentTyped DEF Sources
      <4>2. ASSUME NEW i \in 1 .. Len(Produced)
            PROVE  /\ ApiError(sent["http"][i]) = ""
                   /\ sent["http"][i].created_at = "time"
        <5>1. /\ sent["http"][i] = EventToJson(Produced[i])
              /\ Produced[i] \in MakeRandomEvent
          BY SentByGenerator
        <5>2. ApiError(EventToJson(Produced[i])) = ""
          BY <5>1, MadePasses
        <5>3. EventToJson(Produced[i]).created_at = "time"
          BY <5>1, EventMade
        <5>4. QED
          BY <5>1, <5>2, <5>3
      <4>3. QED
        BY <4>1, <4>2
    <3>2. ~AnyRefused(sent["http"])
      BY <3>1 DEF AnyRefused
    <3>3. reply.status # 502
      <4>1. SUFFICES ASSUME reply.status = 502 PROVE FALSE
        OBVIOUS
      <4>2. reply.accepted + 1 \in DOMAIN sent["http"]
        BY <2>1, <4>1 DEF ReplyInv
      <4>3. Unreadable(sent["http"], reply.accepted + 1)
        BY <2>1, <4>1, RepliesTellOf DEF ReplyInv, Tells
      <4>4. QED
        BY <3>1, <4>2, <4>3 DEF Unreadable
    <3>4. reply.status # 400
      BY <2>1, <3>2, RepliesTellOf DEF ReplyInv, Tells
    <3>5. reply.status \in {0, 200, 400, 502}
      BY <2>1 DEF ReplyInv
    <3>6. QED
      BY <3>3, <3>4, <3>5
  <2>4. ASSUME NEW r \in raw
        PROVE  /\ r \in RawRow /\ r.source \in Sources /\ r.n \in 1 .. Len(Produced)
               /\ r = RowOn(r.source, r.n)
    <3>1. PICK s, n :
            /\ s \in Sources /\ n \in 1 .. read[s]
            /\ r = RowFor(s, n) /\ r.source = s /\ r.n = n
            /\ n \in 1 .. Len(sent[s])
      BY <2>1, RowOrigin
    <3>2. n \in 1 .. Len(Produced)
      BY <3>1, SentByGenerator
    <3>3. QED
      BY <2>1, <3>1, <3>2, RawTyped, RowMade
  <2>5. ASSUME NEW r \in raw PROVE r.source # "kafka" <=> r.props_json = "payload"
    <3>1. r.props_json = PropsOn(r.source)
      BY <2>4 DEF RowOn
    <3>2. QED
      BY <3>1 DEF PropsOn
  <2>6. ASSUME NEW r \in raw, NEW q \in raw, r.n = q.n
        PROVE  [r EXCEPT !.source = q.source, !.props_json = q.props_json,
                         !.device_id = q.device_id] = q
    <3>1. ASSUME NEW x \in raw
          PROVE  /\ x.user_id = "text" /\ x.session_id = "text" /\ x.page_url = "text"
                 /\ x.event_type = Produced[x.n].type /\ x.event_time = "time"
      <4>1. x = RowOn(x.source, x.n)
        BY <2>4
      <4>2. ASSUME NEW s, NEW n
            PROVE  /\ RowOn(s, n).user_id = "text" /\ RowOn(s, n).session_id = "text"
                   /\ RowOn(s, n).page_url = "text" /\ RowOn(s, n).event_time = "time"
                   /\ RowOn(s, n).event_type = Produced[n].type
        BY DEF RowOn
      <4> DEFINE s == x.source
                 n == x.n
      <4>3. x = RowOn(s, n)
        BY <4>1
      <4> HIDE DEF s, n
      <4>4. /\ x.user_id = "text" /\ x.session_id = "text" /\ x.page_url = "text"
            /\ x.event_type = Produced[n].type /\ x.event_time = "time"
        BY <4>2, <4>3
      <4>5. QED
        BY <4>4 DEF n
    <3>2. /\ r.user_id = q.user_id /\ r.session_id = q.session_id
          /\ r.page_url = q.page_url /\ r.event_time = q.event_time
      BY <3>1
    <3>3. r.event_type = q.event_type
      BY <2>6, <3>1
    <3>4. r \in RawRow /\ q \in RawRow
      BY <2>4
    <3>5. QED
      BY <2>6, <3>2, <3>3, <3>4, SameButSource
  <2>7. ASSUME NEW r \in raw
        PROVE  r.device_id = IF r.source = "csv" THEN "device_type" ELSE "text"
    <3>1. r.device_id = DeviceOn(r.source)
      BY <2>4 DEF RowOn
    <3>2. QED
      BY <3>1 DEF DeviceOn
  <2>8. QED
    BY <2>2, <2>3, <2>5, <2>6, <2>7 DEF SameOnEveryPath
<1>2. QED
  BY <1>1, VInvariant, PTL
=============================================================================
